---- MODULE Spec2Model ----
(***************************************************************************)
(* A model of the portfolio site's client-side modules.                    *)
(*                                                                         *)
(* Part 1: ComponentLoader (assets/js/modules/component-loader.js, the     *)
(* class with options, lines 185-554).  The browser runs one task or       *)
(* microtask at a time, so every action below is one run-to-completion     *)
(* piece of the code: the synchronous part of a call up to its first       *)
(* suspension, or the continuation that runs when an awaited promise       *)
(* settles.  Component names and selectors are strings, and the in-flight  *)
(* map is keyed by the string the code builds from them.                   *)
(*                                                                         *)
(* Part 2: App.init, the bootstrap of a page.  Part 3: BlogManager, with   *)
(* a second specification for the pagination strip.  Part 4: ThemeManager  *)
(* in two browsing contexts that share localStorage.  Part 5: Navigation,  *)
(* on its own and in the running application, where the listeners of the   *)
(* application, the loader's header scroll effect and the theme controller *)
(* act on the same page.  Each part has its own specification; the         *)
(* variables of the other parts stay at rest in it.                        *)
(***************************************************************************)
EXTENDS Integers, Sequences, FiniteSets, TLC

\* Number of loadComponent / reloadComponent calls made in one behaviour.
MaxCalls == 3

\* Component names a caller passes, the elements the document holds, and the
\* selectors a caller passes ("#missing" matches no element).
Names == {"header", "header-nav"}

Mounts == {"main", "nav-main"}

Selectors == Mounts \cup {"#missing"}

CallIds == 1..MaxCalls

VARIABLES cache, loadingComponents, dom, calls, loads, fetchCount, preloads, loaderOp

loaderVars == <<cache, loadingComponents, dom, calls, loads, fetchCount, preloads, loaderOp>>

\* The application bootstrap (Part 2).
VARIABLES location, mountPoints, appPc, appLog, isInitialized, componentLoads,
          siteHeader, currentYear, navigationReady, themeReady, pageInitialized,
          globalListeners

appVars ==
  <<location, mountPoints, appPc, appLog, isInitialized, componentLoads,
    siteHeader, currentYear, navigationReady, themeReady, pageInitialized,
    globalListeners>>

\* Each part is checked by a specification of its own, in which the
\* variables of the other parts keep the value they are given here.
LoaderAtRest ==
  /\ cache = <<>> /\ loadingComponents = <<>> /\ dom = <<>>
  /\ calls = <<>> /\ loads = <<>> /\ fetchCount = 0 /\ preloads = <<>>
  /\ loaderOp = <<>>

AppAtRest ==
  /\ location = <<>> /\ mountPoints = {} /\ appPc = "off" /\ appLog = <<>>
  /\ isInitialized = FALSE /\ componentLoads = <<>> /\ siteHeader = FALSE
  /\ currentYear = FALSE /\ navigationReady = "no" /\ themeReady = "no"
  /\ pageInitialized = "none" /\ globalListeners = {}

\* The blog manager (Part 3).
VARIABLES hasBlogPosts, blogPc, blogContainer, blogPosts, filteredPosts, currentPage,
          currentFilter, postList, pagination, blogFetch, initOutcome, thrown,
          lastOp, loadsLeft, addsLeft

blogVars ==
  <<hasBlogPosts, blogPc, blogContainer, blogPosts, filteredPosts, currentPage,
    currentFilter, postList, pagination, blogFetch, initOutcome, thrown,
    lastOp, loadsLeft, addsLeft>>

BlogAtRest ==
  /\ hasBlogPosts = FALSE /\ blogPc = "off" /\ blogContainer = FALSE
  /\ blogPosts = <<>> /\ filteredPosts = <<>> /\ currentPage = 1
  /\ currentFilter = <<>> /\ postList = <<>> /\ pagination = <<>>
  /\ blogFetch = <<>> /\ initOutcome = "none" /\ thrown = FALSE
  /\ lastOp = <<>> /\ loadsLeft = 0 /\ addsLeft = 0

\* The theme controller in the browsing contexts of one origin (Part 4).
VARIABLES themeStorage, themePc, currentTheme, dataTheme, toggleIcon, storageEvents,
          recentToggles, interference

themeVars ==
  <<themeStorage, themePc, currentTheme, dataTheme, toggleIcon, storageEvents,
    recentToggles, interference>>

ThemeAtRest ==
  /\ themeStorage = "" /\ themePc = <<>> /\ currentTheme = <<>> /\ dataTheme = <<>>
  /\ toggleIcon = <<>> /\ storageEvents = <<>> /\ recentToggles = <<>>
  /\ interference = FALSE

\* The navigation controller (Part 5).
VARIABLES navPc, navbar, navbarToggle, navbarMenu, navLinks, isMenuOpen, isScrolled,
          menuClass, ariaExpanded, bodyOverflow, activeElement, focusTimer, innerWidth,
          scrollTop, scrollTimer, navEvent, dispatched, scrolledClass, toggleClone,
          linkHrefs, pathname, activeLinks, bootstrapped, loaderScrollTimer, resizeTimer

navVars ==
  <<navPc, navbar, navbarToggle, navbarMenu, navLinks, isMenuOpen, isScrolled,
    menuClass, ariaExpanded, bodyOverflow, activeElement, focusTimer, innerWidth,
    scrollTop, scrollTimer, navEvent, dispatched, scrolledClass, toggleClone,
    linkHrefs, pathname, activeLinks, bootstrapped, loaderScrollTimer, resizeTimer>>

NavAtRest ==
  /\ navPc = "off" /\ navbar = FALSE /\ navbarToggle = FALSE /\ navbarMenu = FALSE
  /\ navLinks = 0 /\ isMenuOpen = FALSE /\ isScrolled = FALSE /\ menuClass = FALSE
  /\ ariaExpanded = "" /\ bodyOverflow = "" /\ activeElement = "" /\ focusTimer = FALSE
  /\ innerWidth = 0 /\ scrollTop = 0 /\ scrollTimer = 0 /\ navEvent = <<>>
  /\ dispatched = <<>> /\ scrolledClass = FALSE /\ toggleClone = "" /\ linkHrefs = <<>>
  /\ pathname = <<>> /\ activeLinks = {} /\ bootstrapped = FALSE
  /\ loaderScrollTimer = 0 /\ resizeTimer = 0

outsideLoader == <<appVars, blogVars, themeVars, navVars>>

outsideApp == <<loaderVars, blogVars, themeVars, navVars>>

outsideBlog == <<loaderVars, appVars, themeVars, navVars>>

outsideTheme == <<loaderVars, appVars, blogVars, navVars>>

outsideNav == <<loaderVars, appVars, blogVars, themeVars>>

vars == <<loaderVars, appVars, blogVars, themeVars, navVars>>

----------------------------------------------------------------------------
(* Values *)

\* Markup is identified by the component it belongs to and by the network
\* fetch that returned it (fetches are numbered as they are issued).
NoHtml == [name |-> "", fetch |-> 0]

Markup(n, k) == [name |-> n, fetch |-> k]

NoError == [name |-> "", message |-> ""]

NoResult == [success |-> FALSE, fromCache |-> FALSE]

NoElement == ""

\* The option sets callers pass; absent fields take the defaults of
\* _loadComponentInternal's destructuring.
DefaultOptions == [useCache |-> TRUE, showLoading |-> FALSE, onLoad |-> FALSE, onError |-> FALSE]

NoCache == [DefaultOptions EXCEPT !.useCache = FALSE]

Callbacks == [DefaultOptions EXCEPT !.onLoad = TRUE, !.onError = TRUE]

ShowLoading == [DefaultOptions EXCEPT !.showLoading = TRUE]

LoadingWithCallbacks == [Callbacks EXCEPT !.showLoading = TRUE]

\* The loadComponent calls made.  ("header", "nav-main") and
\* ("header-nav", "main") are two different (name, selector) pairs.
Requests ==
  { <<"header", "nav-main", DefaultOptions>>,
    <<"header", "nav-main", NoCache>>,
    <<"header", "nav-main", Callbacks>>,
    <<"header", "nav-main", ShowLoading>>,
    <<"header", "nav-main", LoadingWithCallbacks>>,
    <<"header-nav", "main", DefaultOptions>>,
    <<"header", "#missing", Callbacks>>,
    <<"header", "#missing", ShowLoading>> }

\* The reloadComponent calls made.
ReloadRequests ==
  { <<"header", "nav-main", DefaultOptions>>,
    <<"header", "#missing", DefaultOptions>> }

\* (A lookup that falls back to an element of the page when nothing matches.)
querySelectorOrFallback(s) == IF s \in Mounts THEN s ELSE "main"

\* document.querySelector: the element a selector resolves to, or none.
querySelector(s) == IF s \in Mounts THEN s ELSE NoElement

\* const loadingKey = `${componentName}-${targetSelector}`
loadingKey(n, s) == n \o "-" \o s

Keys == {loadingKey(n, s) : n \in Names, s \in Selectors}

\* const componentPath = `components/${componentName}.html`
componentPath(n) == "components/" \o n \o ".html"

\* The errors the code throws or receives.
TargetNotFound(s) == [name |-> "Error", message |-> "Target element not found: " \o s]

HttpError == [name |-> "Error", message |-> "HTTP 404: Not Found"]

NetworkError == [name |-> "TypeError", message |-> "Failed to fetch"]

AbortError == [name |-> "AbortError", message |-> "The operation was aborted."]

TimeoutError(url) == [name |-> "Error", message |-> "Component fetch timeout: " \o url]

\* (A catch clause that rethrows whatever it caught.)
fetchCatchRethrow(e, url) == e

\* The catch clause of _fetchWithTimeout: an abort becomes a timeout error,
\* everything else is rethrown as it is.
fetchCatch(e, url) == IF e.name = "AbortError" THEN TimeoutError(url) ELSE e

\* Mount point contents.
PriorContent == [kind |-> "prior", html |-> NoHtml, wired |-> "none"]

LoadingIndicator == [kind |-> "loading", html |-> NoHtml, wired |-> "none"]

ErrorState(n) == [kind |-> "error", html |-> [name |-> n, fetch |-> 0], wired |-> "none"]

Inserted(html) == [kind |-> "markup", html |-> html, wired |-> "none"]

\* What a load did, in order: one entry per observable effect.
Entry(type, arg) == [type |-> type, arg |-> arg]

IdleCall == [status |-> "idle", name |-> "", sel |-> "", opts |-> DefaultOptions, reload |-> FALSE, awaits |-> 0, owner |-> FALSE, error |-> NoError, result |-> NoResult, fetched |-> 0, group |-> 0, fresh |-> FALSE]

\* One _preloadComponent per name: where it stands, its fetch, and how many
\* were started.
IdlePreload == [pc |-> "none", fetchId |-> 0, started |-> 0]

\* The method of the loader that was called last, with the component name
\* it was given, or the continuation of an earlier call.
LoaderOp(op, n) == [op |-> op, name |-> n]

Continuation == LoaderOp("continuation", "")

IdleLoad == [pc |-> "none", target |-> NoElement, html |-> NoHtml, fetchId |-> 0, error |-> NoError, result |-> NoResult, abortedAt |-> "none", trace |-> <<>>]

----------------------------------------------------------------------------
(* Initial state: a fresh ComponentLoader on a page whose mount points hold *)
(* their static content.                                                    *)

LoaderInit ==
  /\ cache = [n \in Names |-> NoHtml]
  /\ loadingComponents = [k \in Keys |-> 0]
  /\ dom = [m \in Mounts |-> PriorContent]
  /\ calls = [i \in CallIds |-> IdleCall]
  /\ loads = [i \in CallIds |-> IdleLoad]
  /\ fetchCount = 0
  /\ preloads = [n \in Names |-> IdlePreload]
  /\ loaderOp = LoaderOp("constructor", "")

----------------------------------------------------------------------------
(* Helpers of the loader *)

\* this.loadingComponents.has(key)
HasLoading(key) == loadingComponents[key] # 0

\* this.cache.has(componentName)
CacheHas(c, n) == c[n] # NoHtml

\* _showLoadingIndicator: the placeholder replaces the mount point's content.
showLoadingIndicator(d, target) == [d EXCEPT ![target] = LoadingIndicator]

\* _showErrorState: the error box replaces the mount point's content.
showErrorState(d, target, n) == [d EXCEPT ![target] = ErrorState(n)]

\* (An insertion that dispatches component:loaded before it assigns innerHTML.)
insertComponentEventFirst(d, tr, target, html) ==
  [dom |-> [d EXCEPT ![target] = Inserted(html)],
   trace |-> tr \o <<Entry("component:loaded", <<target, html, d[target]>>),
                     Entry("innerHTML", <<target, html>>)>>]

\* _insertComponent: innerHTML is assigned, then component:loaded is
\* dispatched on the target; the entry records what a listener finds there.
insertComponent(d, tr, target, html) ==
  LET d1 == [d EXCEPT ![target] = Inserted(html)]
  IN [dom |-> d1,
      trace |-> tr \o <<Entry("innerHTML", <<target, html>>),
                        Entry("component:loaded", <<target, html, d1[target]>>)>>]

\* _initializeComponent: the dispatch on the component name.
initializeComponent(n) ==
  CASE n = "header" -> "header"
    [] n = "footer" -> "footer"
    [] OTHER -> "generic"

\* The post-processing of freshly fetched markup (lines 259-260).
postProcess(d, tr, target, n) ==
  [dom |-> [d EXCEPT ![target].wired = initializeComponent(n)],
   trace |-> Append(tr, Entry("initialize", <<initializeComponent(n), target>>))]

\* if (onLoad) onLoad(componentName, target)
callOnLoad(tr, o, n, target) ==
  IF o.onLoad THEN Append(tr, Entry("onLoad", <<n, target>>)) ELSE tr

\* The slot the next call takes.
FreeIds == {i \in CallIds : calls[i].status = "idle"}

NextId == CHOOSE i \in FreeIds : \A j \in FreeIds : i <= j

\* The first still-pending call of the same (name, selector) pair that a new
\* call overlaps, or 0: the calls overlapping it form its group.
Leader(n, s) ==
  LET ls == {i \in CallIds : /\ calls[i].status = "pending"
                             /\ calls[i].group = i
                             /\ calls[i].name = n
                             /\ calls[i].sel = s}
  IN IF ls = {} THEN 0 ELSE CHOOSE i \in ls : TRUE

NewCall(id, n, s, o, isReload) ==
  [IdleCall EXCEPT !.name = n, !.sel = s, !.opts = o, !.reload = isReload, !.fresh = TRUE,
                   !.group = IF Leader(n, s) = 0 THEN id ELSE Leader(n, s)]

----------------------------------------------------------------------------
(* loadComponent (lines 192-220) with the synchronous part of              *)
(* _loadComponentInternal (lines 223-249): everything up to the first      *)
(* suspension.  c0 is the cache the call finds, cs0 the call records.      *)

StartCall(n, s, o, isReload, c0, cs0) ==
  LET id == NextId
      target == querySelector(s)
      key == loadingKey(n, s)
      call == NewCall(id, n, s, o, isReload)
  IN
  /\ UNCHANGED <<outsideLoader, preloads>>
  /\ loaderOp' = LoaderOp(IF isReload THEN "reloadComponent" ELSE "loadComponent", n)
  /\ FreeIds # {}
  /\ cache' = c0
  /\ IF target = NoElement
     THEN \* throw new Error(`Target element not found: ...`), rethrown by the catch
          /\ calls' = [cs0 EXCEPT ![id] = [call EXCEPT !.status = "rejected", !.error = TargetNotFound(s)]]
          /\ UNCHANGED <<loadingComponents, dom, loads, fetchCount>>
     ELSE IF HasLoading(key)
     THEN \* return await this.loadingComponents.get(loadingKey)
          /\ calls' = [cs0 EXCEPT ![id] = [call EXCEPT !.status = "pending", !.awaits = loadingComponents[key]]]
          /\ UNCHANGED <<loadingComponents, dom, loads, fetchCount>>
     ELSE LET d1 == IF o.showLoading THEN showLoadingIndicator(dom, target) ELSE dom
          IN
          /\ loadingComponents' = [loadingComponents EXCEPT ![key] = id]
          /\ IF o.useCache /\ CacheHas(c0, n)
             THEN LET ins == insertComponent(d1, <<>>, target, c0[n])
                  IN /\ dom' = ins.dom
                     /\ loads' = [loads EXCEPT ![id] = [IdleLoad EXCEPT !.pc = "resolved", !.target = target, !.html = c0[n], !.result = [success |-> TRUE, fromCache |-> TRUE], !.trace = callOnLoad(ins.trace, o, n, target)]]
                     /\ fetchCount' = fetchCount
                     /\ calls' = [cs0 EXCEPT ![id] = [call EXCEPT !.status = "pending", !.awaits = id, !.owner = TRUE]]
             ELSE /\ dom' = d1
                  /\ loads' = [loads EXCEPT ![id] = [IdleLoad EXCEPT !.pc = "fetch", !.target = target, !.fetchId = fetchCount + 1]]
                  /\ fetchCount' = fetchCount + 1
                  /\ calls' = [cs0 EXCEPT ![id] = [call EXCEPT !.status = "pending", !.awaits = id, !.owner = TRUE, !.fetched = 1]]

\* A call is fresh while its name has not been removed from the cache since
\* the call started.
Stale(cs, n) == [i \in CallIds |-> IF cs[i].name = n THEN [cs[i] EXCEPT !.fresh = FALSE] ELSE cs[i]]

loadComponent(n, s, o) == StartCall(n, s, o, FALSE, cache, calls)

\* reloadComponent (lines 544-553): cache.delete, then loadComponent with
\* useCache: false.
reloadComponent(n, s, o) ==
  StartCall(n, s, [o EXCEPT !.useCache = FALSE], TRUE, [cache EXCEPT ![n] = NoHtml], Stale(calls, n))

----------------------------------------------------------------------------
(* The continuations of _fetchWithTimeout (lines 278-303) and of           *)
(* _loadComponentInternal (lines 249-274).                                 *)

\* The catch clause of _loadComponentInternal: the callback or the error
\* box, then the rejection.
Fail(id, raw) ==
  LET c == calls[id]
      l == loads[id]
      e == fetchCatch(raw, componentPath(c.name))
  IN
  /\ UNCHANGED <<outsideLoader, preloads>>
  /\ IF c.opts.onError
     THEN /\ dom' = dom
          /\ loads' = [loads EXCEPT ![id] = [l EXCEPT !.pc = "rejected", !.error = e, !.abortedAt = IF raw = AbortError THEN l.pc ELSE "none", !.trace = Append(l.trace, Entry("onError", <<e, c.name, l.target>>))]]
     ELSE /\ dom' = showErrorState(dom, l.target, c.name)
          /\ loads' = [loads EXCEPT ![id] = [l EXCEPT !.pc = "rejected", !.error = e, !.abortedAt = IF raw = AbortError THEN l.pc ELSE "none", !.trace = Append(l.trace, Entry("errorState", <<c.name, l.target>>))]]
  /\ UNCHANGED <<cache, loadingComponents, calls, fetchCount>>

\* await fetch(url, ...) settles: a response with a success status, a
\* response with another status, or a network failure.
FetchResponse(id, outcome) ==
  /\ UNCHANGED <<outsideLoader, preloads>>
  /\ loaderOp' = Continuation
  /\ loads[id].pc = "fetch"
  /\ CASE outcome = "ok" ->
            /\ loads' = [loads EXCEPT ![id].pc = "body"]
            /\ UNCHANGED <<cache, loadingComponents, dom, calls, fetchCount>>
       [] outcome = "status" -> Fail(id, HttpError)
       [] OTHER -> Fail(id, NetworkError)

\* await response.text() settles: the markup arrives and the load runs on to
\* its next suspension (await this._initializeComponent), or the body fails.
FetchBody(id, outcome) ==
  /\ UNCHANGED <<outsideLoader, preloads>>
  /\ loaderOp' = Continuation
  /\ loads[id].pc = "body"
  /\ IF outcome = "ok"
     THEN LET c == calls[id]
              l == loads[id]
              html == Markup(c.name, l.fetchId)
              ins == insertComponent(dom, l.trace, l.target, html)
              post == postProcess(ins.dom, ins.trace, l.target, c.name)
          IN
          /\ cache' = IF c.opts.useCache THEN [cache EXCEPT ![c.name] = html] ELSE cache
          /\ dom' = post.dom
          /\ loads' = [loads EXCEPT ![id] = [l EXCEPT !.pc = "init", !.html = html, !.trace = post.trace]]
          /\ UNCHANGED <<loadingComponents, calls, fetchCount>>
     ELSE Fail(id, NetworkError)

\* The timer of _fetchWithTimeout fires while the fetch or its body is still
\* pending: controller.abort() rejects the pending step with an AbortError.
FetchTimeout(id) ==
  /\ UNCHANGED <<outsideLoader, preloads>>
  /\ loaderOp' = Continuation
  /\ loads[id].pc \in {"fetch", "body"}
  /\ Fail(id, AbortError)

\* The continuation after await this._initializeComponent(...): the onLoad
\* callback and the result.
InitDone(id) ==
  /\ UNCHANGED <<outsideLoader, preloads>>
  /\ loaderOp' = Continuation
  /\ loads[id].pc = "init"
  /\ loads' = [loads EXCEPT ![id] = [loads[id] EXCEPT !.pc = "resolved", !.result = [success |-> TRUE, fromCache |-> FALSE], !.trace = callOnLoad(loads[id].trace, calls[id].opts, calls[id].name, loads[id].target)]]
  /\ UNCHANGED <<cache, loadingComponents, dom, calls, fetchCount>>

----------------------------------------------------------------------------
(* The continuations of loadComponent after its await (lines 202, 209-219) *)

Settled(p) == loads[p].pc \in {"resolved", "rejected"}

\* The outcome a caller of loadComponent receives from the load it awaits.
Outcome(c, p) ==
  IF loads[p].pc = "resolved"
  THEN [c EXCEPT !.status = "resolved", !.result = loads[p].result]
  ELSE [c EXCEPT !.status = "rejected", !.error = loads[p].error]

\* The call that started the load: on success it removes the in-flight
\* entry and returns; on failure the await throws and the catch rethrows.
OwnerSettle(id) ==
  /\ UNCHANGED <<outsideLoader, preloads>>
  /\ loaderOp' = Continuation
  /\ calls[id].status = "pending"
  /\ calls[id].owner
  /\ Settled(id)
  /\ loadingComponents' = IF loads[id].pc = "resolved"
                          THEN [loadingComponents EXCEPT ![loadingKey(calls[id].name, calls[id].sel)] = 0]
                          ELSE loadingComponents
  /\ calls' = [calls EXCEPT ![id] = Outcome(calls[id], id)]
  /\ UNCHANGED <<cache, dom, loads, fetchCount>>

\* A call that found an in-flight entry: it returns what that promise
\* settles with.  Its continuation was queued after the owner's.
JoinedSettle(id) ==
  /\ UNCHANGED <<outsideLoader, preloads>>
  /\ loaderOp' = Continuation
  /\ calls[id].status = "pending"
  /\ ~calls[id].owner
  /\ Settled(calls[id].awaits)
  /\ calls[calls[id].awaits].status # "pending"
  /\ calls' = [calls EXCEPT ![id] = Outcome(calls[id], calls[id].awaits)]
  /\ UNCHANGED <<cache, loadingComponents, dom, loads, fetchCount>>

\* The argument of clearCache() without a name: componentName = null.
NoName == ""

\* (A clearCache that empties the cache whatever it is given.)
clearedCacheAlways(c, componentName) == [n \in Names |-> NoHtml]

\* The cache after clearCache(componentName): cache.delete(componentName)
\* when the name is truthy, cache.clear() otherwise.
clearedCache(c, componentName) ==
  IF componentName # NoName THEN [c EXCEPT ![componentName] = NoHtml] ELSE [n \in Names |-> NoHtml]

\* clearCache(componentName) (lines 524-532)
clearCache(componentName) ==
  /\ UNCHANGED <<outsideLoader, preloads>>
  /\ loaderOp' = LoaderOp("clearCache", componentName)
  /\ IF componentName # NoName THEN CacheHas(cache, componentName) ELSE \E n \in Names : CacheHas(cache, n)
  /\ cache' = clearedCache(cache, componentName)
  /\ calls' = [i \in CallIds |-> IF calls[i].name \in Names /\ cache'[calls[i].name] # cache[calls[i].name]
                                   THEN [calls[i] EXCEPT !.fresh = FALSE] ELSE calls[i]]
  /\ UNCHANGED <<loadingComponents, dom, loads, fetchCount>>

----------------------------------------------------------------------------
(* preloadComponents (lines 494-507) and _preloadComponent (lines 510-521) *)

\* Number of _preloadComponent runs started for one name.
MaxPreloads == 1

\* The arrays of names passed to preloadComponents.
PreloadRequests == {<<"header">>, <<"header", "header-nav">>}

Range(f) == {f[k] : k \in DOMAIN f}

\* preloadComponents(componentNames): every _preloadComponent runs up to
\* its fetch, in the order of the array.
preloadComponents(componentNames) ==
  /\ UNCHANGED outsideLoader
  /\ loaderOp' = LoaderOp("preloadComponents", "")
  /\ \A n \in Range(componentNames) :
       preloads[n].pc \in {"none", "done", "failed"} /\ preloads[n].started < MaxPreloads
  /\ preloads' = [n \in Names |->
                   IF \E k \in DOMAIN componentNames : componentNames[k] = n
                   THEN [pc |-> "fetch",
                         fetchId |-> fetchCount + (CHOOSE k \in DOMAIN componentNames : componentNames[k] = n),
                         started |-> preloads[n].started + 1]
                   ELSE preloads[n]]
  /\ fetchCount' = fetchCount + Len(componentNames)
  /\ UNCHANGED <<cache, loadingComponents, dom, calls, loads>>

\* The catch clause of _preloadComponent: a warning and a result, the cache
\* is not touched.
PreloadFail(n) ==
  /\ preloads' = [preloads EXCEPT ![n].pc = "failed"]
  /\ UNCHANGED <<cache, loadingComponents, dom, calls, loads, fetchCount>>

\* await fetch(url, ...) of a preload settles.
PreloadResponse(n, outcome) ==
  /\ UNCHANGED outsideLoader
  /\ loaderOp' = Continuation
  /\ preloads[n].pc = "fetch"
  /\ IF outcome = "ok"
     THEN /\ preloads' = [preloads EXCEPT ![n].pc = "body"]
          /\ UNCHANGED <<cache, loadingComponents, dom, calls, loads, fetchCount>>
     ELSE PreloadFail(n)

\* await response.text() of a preload settles: this.cache.set(componentName, html).
PreloadBody(n, outcome) ==
  /\ UNCHANGED outsideLoader
  /\ loaderOp' = Continuation
  /\ preloads[n].pc = "body"
  /\ IF outcome = "ok"
     THEN /\ cache' = [cache EXCEPT ![n] = Markup(n, preloads[n].fetchId)]
          /\ preloads' = [preloads EXCEPT ![n].pc = "done"]
          /\ UNCHANGED <<loadingComponents, dom, calls, loads, fetchCount>>
     ELSE PreloadFail(n)

\* The timer of _fetchWithTimeout fires during a preload.
PreloadTimeout(n) ==
  /\ UNCHANGED outsideLoader
  /\ loaderOp' = Continuation
  /\ preloads[n].pc \in {"fetch", "body"}
  /\ PreloadFail(n)


LoaderNext ==
  \/ \E r \in Requests : loadComponent(r[1], r[2], r[3])
  \/ \E r \in ReloadRequests : reloadComponent(r[1], r[2], r[3])
  \/ \E id \in CallIds, outcome \in {"ok", "status", "network"} : FetchResponse(id, outcome)
  \/ \E id \in CallIds, outcome \in {"ok", "network"} : FetchBody(id, outcome)
  \/ \E id \in CallIds : FetchTimeout(id)
  \/ \E id \in CallIds : InitDone(id)
  \/ \E id \in CallIds : OwnerSettle(id)
  \/ \E id \in CallIds : JoinedSettle(id)
  \/ \E n \in Names \cup {NoName} : clearCache(n)

\* The loadComponent calls made next to preloading.
CacheRequests ==
  { <<"header", "nav-main", DefaultOptions>>,
    <<"header-nav", "main", DefaultOptions>> }

\* Number of loadComponent / reloadComponent calls made next to preloading.
MaxCacheCalls == 2

CallsMade == Cardinality({i \in CallIds : calls[i].status # "idle"})

\* The loader with preloading.
CacheNext ==
  \/ \E r \in CacheRequests : CallsMade < MaxCacheCalls /\ loadComponent(r[1], r[2], r[3])
  \/ \E r \in ReloadRequests : CallsMade < MaxCacheCalls /\ reloadComponent(r[1], r[2], r[3])
  \/ \E id \in CallIds, outcome \in {"ok", "status", "network"} : FetchResponse(id, outcome)
  \/ \E id \in CallIds, outcome \in {"ok", "network"} : FetchBody(id, outcome)
  \/ \E id \in CallIds : FetchTimeout(id)
  \/ \E id \in CallIds : InitDone(id)
  \/ \E id \in CallIds : OwnerSettle(id)
  \/ \E id \in CallIds : JoinedSettle(id)
  \/ \E n \in Names \cup {NoName} : clearCache(n)
  \/ \E names \in PreloadRequests : preloadComponents(names)
  \/ \E n \in Names, outcome \in {"ok", "status", "network"} : PreloadResponse(n, outcome)
  \/ \E n \in Names, outcome \in {"ok", "network"} : PreloadBody(n, outcome)
  \/ \E n \in Names : PreloadTimeout(n)

\* The page with only the component loader constructed.
LoaderStart == LoaderInit /\ AppAtRest /\ BlogAtRest /\ ThemeAtRest /\ NavAtRest

LoaderSpec == LoaderStart /\ [][LoaderNext]_vars

CacheSpec == LoaderStart /\ [][CacheNext]_vars

----------------------------------------------------------------------------
(* Properties of the component loader *)

Started == {i \in CallIds : calls[i].status # "idle"}

IsSettled(i) == calls[i].status \in {"resolved", "rejected"}

\* The calls of one (name, selector) pair that overlap its first call g.
Group(g) == {i \in Started : calls[i].group = g}

\* The call that takes its slot in this step.
Starts(i) == calls[i].status = "idle" /\ calls'[i].status # "idle"

TypesOf(tr) == [k \in DOMAIN tr |-> tr[k].type]

Positions(tr, type) == {k \in DOMAIN tr : tr[k].type = type}

\* C1: when loadComponent calls of one (name, selector) pair overlap, exactly
\* one network fetch is issued for the pair by those calls, and all of them
\* that have settled have the same outcome (equal result, or the same error).
C1_OverlappingLoadsShareOneFetch ==
  \A g \in CallIds :
    Cardinality(Group(g)) >= 2 =>
      /\ Cardinality({i \in Group(g) : calls[i].fetched = 1}) = 1
      /\ \A i, j \in Group(g) :
           (IsSettled(i) /\ IsSettled(j)) =>
             /\ calls[i].status = calls[j].status
             /\ calls[i].result = calls[j].result
             /\ calls[i].error = calls[j].error

\* C2: once a loadComponent call with caching enabled has resolved
\* successfully (and the name has not been removed from the cache since), a
\* following loadComponent call of the same pair with caching enabled issues
\* no network fetch, and the load it runs is served from the cache.
C2_SecondLoadServedFromCache ==
  [][\A i, j \in CallIds :
       ( /\ Starts(j)
         /\ ~calls'[j].reload
         /\ calls'[j].opts.useCache
         /\ calls[i].status = "resolved"
         /\ ~calls[i].reload
         /\ calls[i].opts.useCache
         /\ calls[i].fresh
         /\ calls[i].name = calls'[j].name
         /\ calls[i].sel = calls'[j].sel )
       => /\ fetchCount' = fetchCount
          /\ calls'[j].owner => loads'[j].result.fromCache]_loaderVars

\* C3: the in-flight entry of a load exists exactly while the call that
\* started the load is pending: it is there from the start of the call and
\* gone once the call has resolved or rejected.
C3_InFlightEntryOnlyWhilePending ==
  \A i \in CallIds :
    calls[i].owner =>
      (calls[i].status = "pending" <=> loadingComponents[loadingKey(calls[i].name, calls[i].sel)] = i)

\* C4: when a reloadComponent call resolves successfully, the cache holds for
\* its name the markup that the reload fetched.
C4_ReloadReplacesCacheEntry ==
  [][\A i \in CallIds :
       (calls[i].reload /\ calls[i].status = "pending" /\ calls'[i].status = "resolved")
       => /\ CacheHas(cache', calls[i].name)
          /\ cache'[calls[i].name] = loads[calls[i].awaits].html]_loaderVars

\* C5: every reloadComponent call whose target exists issues a network fetch
\* of its own, and no reload resolves with fromCache = true.
C5_ReloadAlwaysFetches ==
  [][\A i \in CallIds :
       /\ (Starts(i) /\ calls'[i].reload /\ calls'[i].sel \in Mounts) => fetchCount' = fetchCount + 1
       /\ (calls'[i].reload /\ calls'[i].status = "resolved") => ~calls'[i].result.fromCache]_loaderVars

\* C6: a load whose fetch was aborted by its timer is rejected, and stays so,
\* with the timeout error, which differs from the HTTP-status error and from
\* the network error; its callers are rejected with that error; no markup of
\* that fetch is cached or inserted; it is the only fetch the load issues.
C6_TimeoutRejectsWithTimeoutError ==
  \A p \in CallIds :
    loads[p].abortedAt # "none" =>
      /\ loads[p].pc = "rejected"
      /\ loads[p].error = TimeoutError(componentPath(calls[p].name))
      /\ loads[p].error \notin {HttpError, NetworkError, AbortError, NoError}
      /\ loads[p].html = NoHtml
      /\ \A n \in Names : cache[n].fetch # loads[p].fetchId
      /\ \A m \in Mounts : dom[m].html.fetch # loads[p].fetchId
      /\ \A i \in CallIds :
           (calls[i].status # "idle" /\ calls[i].awaits = p) =>
             /\ calls[i].status \in {"pending", "rejected"}
             /\ calls[i].status = "rejected" => calls[i].error = loads[p].error
      /\ Cardinality({i \in Started : calls[i].awaits = p /\ calls[i].fetched = 1}) = 1
      /\ ~\E k \in DOMAIN loads[p].trace : loads[p].trace[k].type \in {"innerHTML", "component:loaded", "onLoad"}

C6_Witness ==
  \E p \in CallIds :
    /\ loads[p].abortedAt = "body"
    /\ calls[p].status = "rejected"
    /\ \E i \in CallIds : i # p /\ calls[i].awaits = p /\ calls[i].status = "rejected"

\* C7: every rejected loadComponent call that was made with an onError
\* callback has had that callback invoked exactly once, with the error the
\* call rejects with, the component name and the target.
C7_OnErrorOncePerFailure ==
  \A i \in CallIds :
    (calls[i].status = "rejected" /\ calls[i].opts.onError) =>
      /\ Cardinality(Positions(loads[i].trace, "onError")) = 1
      /\ \A k \in Positions(loads[i].trace, "onError") :
           loads[i].trace[k].arg = <<calls[i].error, calls[i].name, querySelector(calls[i].sel)>>

\* C8: a loadComponent call whose selector matches no element is rejected
\* with the target-not-found error and leaves the cache, the in-flight map,
\* the mount points, the loads and the number of fetches as they were.
C8_MissingTargetChangesNothing ==
  [][\A i \in CallIds :
       (Starts(i) /\ ~calls'[i].reload /\ calls'[i].sel \notin Mounts)
       => /\ calls'[i].status = "rejected"
          /\ calls'[i].error = TargetNotFound(calls'[i].sel)
          /\ UNCHANGED <<cache, loadingComponents, dom, loads, fetchCount>>]_loaderVars

C8_Witness ==
  \E i \in CallIds :
    /\ calls[i].status = "rejected"
    /\ ~calls[i].reload
    /\ calls[i].sel \notin Mounts
    /\ calls[i].opts.showLoading
    /\ \E n \in Names : CacheHas(cache, n)
    /\ \E k \in Keys : HasLoading(k)

\* C9: in every load that succeeds, the markup (fetched or cached) is put in
\* place of the mount point's content, component:loaded is dispatched once,
\* on that mount point, when the mount point holds exactly that markup, and
\* post-processing and the onLoad callback come after the event.
C9_InsertThenEventThenCallbacks ==
  \A p \in CallIds :
    loads[p].pc \in {"init", "resolved"} =>
      LET tr == loads[p].trace
          ev == Positions(tr, "component:loaded")
      IN /\ loads[p].html # NoHtml
         /\ loads[p].html.name = calls[p].name
         /\ ~loads[p].result.fromCache => loads[p].html = Markup(calls[p].name, loads[p].fetchId)
         /\ Cardinality(ev) = 1
         /\ \A k \in ev :
              /\ k > 1
              /\ tr[k - 1] = Entry("innerHTML", <<loads[p].target, loads[p].html>>)
              /\ tr[k].arg = <<loads[p].target, loads[p].html, Inserted(loads[p].html)>>
              /\ \A q \in Positions(tr, "initialize") \cup Positions(tr, "onLoad") : q > k
         /\ (loads[p].pc = "resolved" /\ calls[p].opts.onLoad) => Cardinality(Positions(tr, "onLoad")) = 1

C9_Witness ==
  \E p, q \in CallIds :
    /\ loads[p].pc = "resolved" /\ ~loads[p].result.fromCache /\ calls[p].opts.onLoad
    /\ TypesOf(loads[p].trace) = <<"innerHTML", "component:loaded", "initialize", "onLoad">>
    /\ loads[q].pc = "resolved" /\ loads[q].result.fromCache
    /\ loads[q].target = loads[p].target

\* C10: every load that has succeeded has run the component's
\* post-processing on the markup it inserted.
C10_PostProcessingAfterEveryInsert ==
  \A p \in CallIds :
    loads[p].pc = "resolved" =>
      \E k \in Positions(loads[p].trace, "initialize") :
        /\ loads[p].trace[k].arg = <<initializeComponent(calls[p].name), loads[p].target>>
        /\ \E q \in Positions(loads[p].trace, "innerHTML") : q < k

----------------------------------------------------------------------------
(***************************************************************************)
(* Part 2: the application bootstrap (unnamed/part_003, class App).        *)
(*                                                                         *)
(* App.init runs up to `await this.loadComponents()`, which starts the     *)
(* header and the footer load and waits on Promise.all of the two.  The    *)
(* rest of init is synchronous.  appPc names the statement of init that    *)
(* runs next; while init is in the middle of its synchronous tail no       *)
(* network event is delivered.  The two loads use keys that do not         *)
(* collide and start with an empty cache, so each one is its own fetch.    *)
(***************************************************************************)

\* (An init that sets up the theme before the navigation.)
initSequenceThemeFirst ==
  <<"loadComponents", "themeManager.init", "navigation.init",
    "initPageSpecific", "setupGlobalEvents", "updateCopyrightYear">>

\* The statements of App.init after the constructors, in program order.
initSequence ==
  <<"loadComponents", "navigation.init", "themeManager.init",
    "initPageSpecific", "setupGlobalEvents", "updateCopyrightYear">>

\* The components App.loadComponents mounts and their mount selectors.
AppComponents == {"header", "footer"}

appSelector(c) == IF c = "header" THEN "#header-component" ELSE "#footer-component"

\* Location paths: the directory part is irrelevant, the last segment is a
\* file name given as stem and extension ("" for a path ending in "/").
Paths ==
  { <<"", "">>, <<"index", ".html">>, <<"blog", ".html">>, <<"contact", ".html">>,
    <<"academics", ".html">>, <<"about", ".html">>, <<"blog", "">> }

\* Utils.getCurrentPage: the last path segment without ".html", or 'index'.
getCurrentPage(path) ==
  LET fileName == path[1] \o path[2]
  IN IF fileName = "" \/ fileName = "/" THEN "index"
     ELSE IF path[2] = ".html" THEN path[1] ELSE fileName

\* App.initPageSpecific's switch.
pageInitializer(page) ==
  CASE page = "index" -> "initHomePage"
    [] page = "blog" -> "initBlogPage"
    [] page = "contact" -> "initContactPage"
    [] page = "academics" -> "initAcademicsPage"
    [] OTHER -> "none"

\* The page initialisers that touch the document (the others only log).
TouchesDocument(initializer) == initializer \in {"initHomePage", "initContactPage"}

\* A fragment load as App sees it: the promise loadComponent returned.
IdleComponentLoad == [status |-> "idle", error |-> NoError]

LogEntry(step, what) == [step |-> step, what |-> what]

AppInit ==
  /\ location \in Paths
  /\ mountPoints \in SUBSET {appSelector(c) : c \in AppComponents}
  /\ appPc = "init"
  /\ appLog = <<>>
  /\ isInitialized = FALSE
  /\ componentLoads = [c \in AppComponents |-> IdleComponentLoad]
  /\ siteHeader = FALSE
  /\ currentYear = FALSE
  /\ navigationReady = "no"
  /\ themeReady = "no"
  /\ pageInitialized = "none"
  /\ globalListeners = {}

\* The step of initSequence after s ("end" after the last one).
stepAfter(s) ==
  LET i == CHOOSE k \in 1..Len(initSequence) : initSequence[k] = s
  IN IF i = Len(initSequence) THEN "end" ELSE initSequence[i + 1]

Pending(l) == l.status \in {"fetch", "body"}

HasSettled(l) == l.status \in {"resolved", "rejected"}

\* Promise.all over the two loads: rejected as soon as one is rejected,
\* resolved when both are resolved.
PromiseAll(ls) ==
  IF \E c \in AppComponents : ls[c].status = "rejected" THEN "rejected"
  ELSE IF \A c \in AppComponents : ls[c].status = "resolved" THEN "resolved"
  ELSE "pending"

\* loadComponent as called by App: rejected at once when the selector
\* matches nothing, otherwise a fetch of the fragment is under way.
startComponentLoad(c) ==
  IF appSelector(c) \in mountPoints
    THEN [status |-> "fetch", error |-> NoError]
    ELSE [status |-> "rejected", error |-> TargetNotFound(appSelector(c))]

\* init up to the await: constructors, then loadComponents starts both loads.
App_init ==
  /\ appPc = "init"
  /\ appPc' = initSequence[1]
  /\ appLog' = Append(appLog, LogEntry(initSequence[1], "start"))
  /\ componentLoads' = [c \in AppComponents |-> startComponentLoad(c)]
  /\ UNCHANGED outsideApp
  /\ UNCHANGED <<location, mountPoints, isInitialized, siteHeader, currentYear,
                 navigationReady, themeReady, pageInitialized, globalListeners>>

\* Network events reach the page only between tasks: not while the
\* continuation of an already settled await is due, nor inside init's tail.
NetworkTurn ==
  \/ appPc = "loadComponents" /\ PromiseAll(componentLoads) = "pending"
  \/ appPc \in {"end", "failed"}

\* The fetch of a fragment settles (_fetchWithTimeout): a success status, then
\* the body is awaited; another status, a network failure or the timer
\* reject the load.
ComponentResponse(c, outcome) ==
  /\ NetworkTurn
  /\ componentLoads[c].status = "fetch"
  /\ componentLoads' =
       [componentLoads EXCEPT ![c] =
          CASE outcome = "ok" -> [status |-> "body", error |-> NoError]
            [] outcome = "status" -> [status |-> "rejected", error |-> HttpError]
            [] outcome = "network" -> [status |-> "rejected", error |-> NetworkError]
            [] OTHER -> [status |-> "rejected", error |-> fetchCatch(AbortError, componentPath(c))]]
  /\ UNCHANGED <<location, mountPoints, appPc, appLog, isInitialized, siteHeader,
                 currentYear, navigationReady, themeReady, pageInitialized, globalListeners>>
  /\ UNCHANGED outsideApp

\* The body of a fragment arrives: the loader inserts it, runs the
\* component's initialiser (the footer's stamps the year) and resolves; or
\* the body fails or times out.
ComponentBody(c, outcome) ==
  /\ NetworkTurn
  /\ componentLoads[c].status = "body"
  /\ IF outcome = "ok"
     THEN /\ componentLoads' = [componentLoads EXCEPT ![c] = [status |-> "resolved", error |-> NoError]]
          /\ siteHeader' = (siteHeader \/ initializeComponent(c) = "header")
          /\ currentYear' = (currentYear \/ initializeComponent(c) = "footer")
     ELSE /\ componentLoads' =
               [componentLoads EXCEPT ![c] =
                  [status |-> "rejected",
                   error |-> IF outcome = "network" THEN NetworkError
                             ELSE fetchCatch(AbortError, componentPath(c))]]
          /\ UNCHANGED <<siteHeader, currentYear>>
  /\ UNCHANGED <<location, mountPoints, appPc, appLog, isInitialized,
                 navigationReady, themeReady, pageInitialized, globalListeners>>
  /\ UNCHANGED outsideApp

\* A step of init's synchronous tail that returns normally.
StepDone(step) ==
  /\ appPc' = stepAfter(step)
  /\ appLog' = appLog \o <<LogEntry(step, "start"), LogEntry(step, "end")>>

\* A step that throws: init's catch logs the error and init returns.
StepThrows(step) ==
  /\ appPc' = "failed"
  /\ appLog' = appLog \o <<LogEntry(step, "start"), LogEntry(step, "throw")>>

\* await this.loadComponents() returns: Promise.all has settled, a rejection
\* is caught and logged inside loadComponents.
loadComponentsReturn ==
  /\ appPc = "loadComponents"
  /\ PromiseAll(componentLoads) # "pending"
  /\ appPc' = stepAfter("loadComponents")
  /\ appLog' = Append(appLog, LogEntry("loadComponents", "end"))
  /\ UNCHANGED <<location, mountPoints, isInitialized, componentLoads, siteHeader,
                 currentYear, navigationReady, themeReady, pageInitialized, globalListeners>>
  /\ UNCHANGED outsideApp

\* this.navigation.init(): cacheElements throws when the document has no
\* .site-header; Navigation.init catches and logs whatever is thrown.
navigationInit ==
  /\ appPc = "navigation.init"
  /\ StepDone("navigation.init")
  /\ navigationReady' = IF siteHeader THEN "yes" ELSE "failed"
  /\ UNCHANGED <<location, mountPoints, isInitialized, componentLoads, siteHeader,
                 currentYear, themeReady, pageInitialized, globalListeners>>
  /\ UNCHANGED outsideApp

\* this.themeManager.init(): ThemeManager.init catches and logs whatever
\* its steps throw.
themeManagerInit(ok) ==
  /\ appPc = "themeManager.init"
  /\ StepDone("themeManager.init")
  /\ themeReady' = IF ok THEN "yes" ELSE "failed"
  /\ UNCHANGED <<location, mountPoints, isInitialized, componentLoads, siteHeader,
                 currentYear, navigationReady, pageInitialized, globalListeners>>
  /\ UNCHANGED outsideApp

\* this.initPageSpecific(): the initialiser of the current page runs; what
\* it throws is not caught before init's own catch.
initPageSpecific(throws) ==
  LET initializer == pageInitializer(getCurrentPage(location))
  IN
  /\ appPc = "initPageSpecific"
  /\ throws => TouchesDocument(initializer)
  /\ IF throws
     THEN StepThrows("initPageSpecific") /\ UNCHANGED pageInitialized
     ELSE StepDone("initPageSpecific") /\ pageInitialized' = initializer
  /\ UNCHANGED <<location, mountPoints, isInitialized, componentLoads, siteHeader,
                 currentYear, navigationReady, themeReady, globalListeners>>
  /\ UNCHANGED outsideApp

\* this.setupGlobalEvents(): three addEventListener calls.
setupGlobalEvents(throws) ==
  /\ appPc = "setupGlobalEvents"
  /\ IF throws
     THEN StepThrows("setupGlobalEvents") /\ UNCHANGED globalListeners
     ELSE StepDone("setupGlobalEvents")
          /\ globalListeners' = {"resize", "visibilitychange", "keydown"}
  /\ UNCHANGED <<location, mountPoints, isInitialized, componentLoads, siteHeader,
                 currentYear, navigationReady, themeReady, pageInitialized>>
  /\ UNCHANGED outsideApp

\* this.updateCopyrightYear(), then this.isInitialized = true.  The year
\* element is part of the footer fragment.
updateCopyrightYear(throws) ==
  /\ appPc = "updateCopyrightYear"
  /\ IF throws
     THEN StepThrows("updateCopyrightYear") /\ UNCHANGED <<currentYear, isInitialized>>
     ELSE /\ StepDone("updateCopyrightYear")
          /\ currentYear' = (currentYear \/ componentLoads["footer"].status = "resolved")
          /\ isInitialized' = (stepAfter("updateCopyrightYear") = "end")
  /\ UNCHANGED <<location, mountPoints, componentLoads, siteHeader,
                 navigationReady, themeReady, pageInitialized, globalListeners>>
  /\ UNCHANGED outsideApp

AppNext ==
  \/ App_init
  \/ \E c \in AppComponents, outcome \in {"ok", "status", "network", "timeout"} : ComponentResponse(c, outcome)
  \/ \E c \in AppComponents, outcome \in {"ok", "network", "timeout"} : ComponentBody(c, outcome)
  \/ loadComponentsReturn
  \/ navigationInit
  \/ \E ok \in BOOLEAN : themeManagerInit(ok)
  \/ \E throws \in BOOLEAN : initPageSpecific(throws)
  \/ \E throws \in BOOLEAN : setupGlobalEvents(throws)
  \/ \E throws \in BOOLEAN : updateCopyrightYear(throws)

\* The page on which App.init is about to run.
AppStart == AppInit /\ LoaderAtRest /\ BlogAtRest /\ ThemeAtRest /\ NavAtRest

AppSpec == AppStart /\ [][AppNext]_vars

----------------------------------------------------------------------------
(* Properties of the bootstrap *)

\* The documented order of the bootstrap steps.
DocumentedSteps ==
  <<"loadComponents", "navigation.init", "themeManager.init",
    "initPageSpecific", "setupGlobalEvents", "updateCopyrightYear">>

StepStarted(step) == \E k \in DOMAIN appLog : appLog[k] = LogEntry(step, "start")

\* C11: the steps of App.init start in the documented order (mount header
\* and footer, navigation, theme, page initialiser, global listeners,
\* copyright year), a step starts only after the call of the step before it
\* has returned, and isInitialized is true only when all six have returned.
C11_StepsRunInFixedOrder ==
  /\ Len(appLog) <= 2 * Len(DocumentedSteps)
  /\ \A k \in DOMAIN appLog :
       /\ appLog[k].step = DocumentedSteps[(k + 1) \div 2]
       /\ (k % 2 = 1) => appLog[k].what = "start"
       /\ (k % 2 = 0) => appLog[k].what \in {"end", "throw"}
       /\ appLog[k].what = "throw" => k = Len(appLog)
  /\ isInitialized =>
       /\ Len(appLog) = 2 * Len(DocumentedSteps)
       /\ appLog[Len(appLog)].what = "end"

C11_Witness ==
  /\ isInitialized
  /\ appPc = "end"
  /\ \A c \in AppComponents : componentLoads[c].status = "resolved"
  /\ navigationReady = "yes"
  /\ globalListeners # {}
  /\ currentYear

\* C12: when navigation initialisation is about to start, neither the
\* header load nor the footer load is still pending.
C12_BothLoadsSettledBeforeNavigation ==
  appPc = "navigation.init" => \A c \in AppComponents : HasSettled(componentLoads[c])

\* C13: when App.init has returned, every one of the six bootstrap steps has
\* been run, whichever of them failed.
C13_EveryStepRunsDespiteFailures ==
  appPc \in {"end", "failed"} =>
    \A i \in DOMAIN DocumentedSteps : StepStarted(DocumentedSteps[i])

----------------------------------------------------------------------------
(***************************************************************************)
(* Part 3: BlogManager (assets/js/modules/blog-manager.js).                *)
(*                                                                         *)
(* A post is a record of the fields the code reads.  Category and filter   *)
(* values are sequences of characters, so that lower-casing and the        *)
(* replacement of whitespace runs are computed character by character.     *)
(* Dates are the strings of the data file; new Date(...) maps them to a    *)
(* day count.                                                              *)
(***************************************************************************)

\* this.postsPerPage = 6
postsPerPage == 6

UpperCase ==
  <<"A", "B", "C", "D", "E", "F", "G", "H", "I", "J", "K", "L", "M",
    "N", "O", "P", "Q", "R", "S", "T", "U", "V", "W", "X", "Y", "Z">>

LowerCase ==
  <<"a", "b", "c", "d", "e", "f", "g", "h", "i", "j", "k", "l", "m",
    "n", "o", "p", "q", "r", "s", "t", "u", "v", "w", "x", "y", "z">>

\* \s of the regular expression, as far as the values used go.
Whitespace == {" ", "\t"}

\* The characters that occur in category and filter values.
Characters ==
  {UpperCase[k] : k \in DOMAIN UpperCase} \cup {LowerCase[k] : k \in DOMAIN LowerCase}
    \cup Whitespace \cup {"-"}

\* The lower-case form of one character.
toLowerChar ==
  [c \in Characters |->
     IF \E k \in DOMAIN UpperCase : UpperCase[k] = c
     THEN LowerCase[CHOOSE k \in DOMAIN UpperCase : UpperCase[k] = c]
     ELSE c]

\* String.prototype.toLowerCase
toLowerCase(str) == [i \in DOMAIN str |-> toLowerChar[str[i]]]

\* str.replace(/\s+/g, '-'): every maximal run of whitespace becomes one hyphen.
RECURSIVE replaceWhitespaceRuns(_)
replaceWhitespaceRuns(str) ==
  IF str = <<>> THEN <<>>
  ELSE IF Head(str) \in Whitespace
       THEN IF Len(str) > 1 /\ str[2] \in Whitespace
            THEN replaceWhitespaceRuns(Tail(str))
            ELSE <<"-">> \o replaceWhitespaceRuns(Tail(str))
       ELSE <<Head(str)>> \o replaceWhitespaceRuns(Tail(str))

\* post.category.toLowerCase().replace(/\s+/g, '-') (lines 191 and 241)
categorySlug(category) == replaceWhitespaceRuns(toLowerCase(category))

\* Category and filter values.
All == <<"a", "l", "l">>

DataScience == <<"D", "a", "t", "a", " ", "S", "c", "i", "e", "n", "c", "e">>

DataScienceSlug == <<"d", "a", "t", "a", "-", "s", "c", "i", "e", "n", "c", "e">>

DataVisualization ==
  <<"D", "a", "t", "a", " ", "V", "i", "s", "u", "a", "l", "i", "z", "a", "t", "i", "o", "n">>

Experience == <<"E", "x", "p", "e", "r", "i", "e", "n", "c", "e">>

ExperienceSlug == <<"e", "x", "p", "e", "r", "i", "e", "n", "c", "e">>

Personal == <<"P", "e", "r", "s", "o", "n", "a", "l">>

Hackathon == <<"H", "a", "c", "k", "a", "t", "h", "o", "n">>

TravelSlug == <<"t", "r", "a", "v", "e", "l">>

\* The values filterByCategory is called with: the data-category attributes
\* of the filter buttons (slugs, one of them of a category without posts)
\* and category names as the data file writes them.
FilterValues == {All, DataScienceSlug, ExperienceSlug, TravelSlug, DataScience, Experience}

\* new Date(dateString), as days since 1970-01-01; 0 stands for no value.
parseDate(dateString) ==
  CASE dateString = "2021-03-07" -> 18693
    [] dateString = "2021-03-07T00:00:00.000Z" -> 18693
    [] dateString = "2020-11-30" -> 18596
    [] dateString = "2020-08-04" -> 18478
    [] dateString = "2020-04-22" -> 18374
    [] dateString = "2020-03-01" -> 18322
    [] dateString = "2019-11-25" -> 18225
    [] dateString = "2022-01-01" -> 18993
    [] dateString = "2022-01-02" -> 18994
    [] dateString = "2022-01-03" -> 18995
    [] dateString = "2022-01-04" -> 18996
    [] dateString = "2022-01-05" -> 18997
    [] dateString = "2022-01-06" -> 18998
    [] dateString = "2022-01-07" -> 18999
    [] OTHER -> 0

Post(id, title, date, category, url) ==
  [id |-> id, title |-> title, excerpt |-> "...", date |-> date, category |-> category, url |-> url]

\* loadFallbackPosts: the embedded list (lines 62-129).
FallbackPosts ==
  << Post("data-ethics", "Data Ethics", "2021-03-07", DataScience, "pages/data_ethics_blog.html"),
     Post("mapbox-challenge", "Mapbox Challenge", "2020-11-30", DataVisualization, "pages/mapbox_challenge_blog.html"),
     Post("pg-internship", "Procter & Gamble, Take Two", "2020-08-04", Experience, "pages/online_internship_blog.html"),
     Post("uncertain-spring", "Uncertain Spring", "2020-04-22", Personal, "pages/uncertain_spring_blog.html"),
     Post("data-in-dc", "Data in DC", "2020-03-01", Experience, "pages/data_in_dc_blog.html"),
     Post("hack-ohio-2019", "Hack OHI/O 2019", "2019-11-25", Hackathon, "pages/hack_ohio_2019_blog.html") >>

\* (A comparator that sorts oldest first.)
compareOldestFirst(a, b) == parseDate(a.date) - parseDate(b.date)

\* The comparator of line 47-49: new Date(b.date) - new Date(a.date).
compareByDate(a, b) == parseDate(b.date) - parseDate(a.date)

\* Array.prototype.sort with that comparator.  The sort is stable: an
\* element goes behind every element it does not have to precede.
insertSorted(sorted, x) ==
  LET after == {i \in DOMAIN sorted : compareByDate(sorted[i], x) > 0}
      k == IF after = {} THEN Len(sorted) + 1 ELSE CHOOSE i \in after : \A j \in after : i <= j
  IN SubSeq(sorted, 1, k - 1) \o <<x>> \o SubSeq(sorted, k, Len(sorted))

RECURSIVE sortPosts(_)
sortPosts(posts) ==
  IF posts = <<>> THEN <<>>
  ELSE insertSorted(sortPosts(SubSeq(posts, 1, Len(posts) - 1)), posts[Len(posts)])

\* The posts of the data file, in the orders the file may list them.  a1 and
\* a2 are dated to the same instant, written in two ways.
SamplePosts ==
  { Post("a1", "A one", "2021-03-07", DataScience, "pages/a1.html"),
    Post("a2", "A two", "2021-03-07T00:00:00.000Z", Experience, "pages/a2.html"),
    Post("b", "B", "2020-11-30", Experience, "pages/b.html") }

ShortDocuments ==
  {<<>>} \cup { d \in [1..3 -> SamplePosts] : \A i, j \in 1..3 : i # j => d[i] # d[j] }

\* A file of thirteen posts on seven dates, not listed in date order.
LongIds == <<"p01", "p02", "p03", "p04", "p05", "p06", "p07", "p08", "p09", "p10", "p11", "p12", "p13">>

LongDates == <<"2022-01-01", "2022-01-02", "2022-01-03", "2022-01-04", "2022-01-05", "2022-01-06", "2022-01-07">>

LongDocument ==
  [i \in DOMAIN LongIds |->
     Post(LongIds[i], LongIds[i], LongDates[((i * 3) % Len(LongDates)) + 1],
          IF i % 2 = 1 THEN Experience ELSE IF i % 4 = 0 THEN Personal ELSE DataScience,
          "pages/" \o LongIds[i] \o ".html")]

Documents == ShortDocuments \cup {LongDocument}

\* requiredFields of addNewPost (line 355).
RequiredFields == {"id", "title", "excerpt", "date", "category", "url"}

\* A post that lacks the field given: the field holds an empty value.
Without(post, field) ==
  [post EXCEPT ![field] = IF field = "category" THEN <<>> ELSE ""]

\* The posts addNewPost is called with: a complete post, a post that
\* repeats an id and carries an old date, and six posts that each lack one
\* required field.
NewPosts ==
  { Post("new-post", "New", "2022-01-07", Experience, "pages/new.html"),
    Post("a1", "A again", "2019-11-25", DataScience, "pages/a1-again.html") }
  \cup { Without(Post("draft", "Draft", "2022-01-07", Personal, "pages/draft.html"), field) :
           field \in RequiredFields }

\* Number of loadBlogPosts calls after init's, and of addNewPost calls.
MaxLoads == 1

MaxAdds == 1

----------------------------------------------------------------------------
(* Rendering *)

\* The content of #blog-posts.
StaticList == [kind |-> "static", cards |-> <<>>, filter |-> <<>>, reset |-> FALSE, onclick |-> <<>>]

\* createBlogCard: the article element of one post.
createBlogCard(post) == [post |-> post, dataCategory |-> categorySlug(post.category)]

\* The text the template of lines 258-260 puts between onclick=" and the
\* last " of the button's tag, in pieces; \" in a template literal is ".
ResetMarkup ==
  <<"document.querySelector(", "'", "[data-category=", "\"", "all", "\"", "]", "'", ").click()">>

\* The value the HTML parser gives a double-quoted attribute: the text up
\* to the next double quote.
attributeValue(text) ==
  LET quotes == {k \in DOMAIN text : text[k] = "\""}
  IN IF quotes = {} THEN text
     ELSE SubSeq(text, 1, (CHOOSE k \in quotes : \A l \in quotes : k <= l) - 1)

\* An event handler attribute becomes a handler only if its text is a
\* function body: here, if its string literals are closed.
compiles(script) == Cardinality({k \in DOMAIN script : script[k] = "'"}) % 2 = 0

\* showEmptyState: the message names the filter and shows the reset button
\* when the filter is not 'all'.
showEmptyState(filter) ==
  [kind |-> "empty", cards |-> <<>>,
   filter |-> IF filter # All THEN filter ELSE <<>>,
   reset |-> filter # All,
   onclick |-> IF filter # All THEN attributeValue(ResetMarkup) ELSE <<>>]

\* (A slice that includes the element at index end.)
sliceInclusive(arr, start, end) ==
  SubSeq(arr, start + 1, IF end + 1 < Len(arr) THEN end + 1 ELSE Len(arr))

\* Array.prototype.slice(start, end) for 0 <= start <= end.
slice(arr, start, end) == SubSeq(arr, start + 1, IF end < Len(arr) THEN end ELSE Len(arr))

\* Math.ceil(length / postsPerPage)
totalPagesOf(posts) == (Len(posts) + postsPerPage - 1) \div postsPerPage

NoPagination == <<>>

Button(kind, page, active) == [kind |-> kind, page |-> page, active |-> active]

Ellipsis == [kind |-> "ellipsis", page |-> 0, active |-> FALSE]

\* (A strip whose window is one page on each side of the current page.)
renderPaginationNarrow(posts, page) ==
  LET totalPages == totalPagesOf(posts)
      startPage == IF page - 1 > 1 THEN page - 1 ELSE 1
      endPage == IF page + 1 < totalPages THEN page + 1 ELSE totalPages
  IN IF totalPages <= 1 THEN NoPagination
     ELSE (IF page > 1 THEN <<Button("prev", page - 1, FALSE)>> ELSE <<>>)
          \o (IF startPage > 1
              THEN <<Button("page", 1, FALSE)>> \o (IF startPage > 2 THEN <<Ellipsis>> ELSE <<>>)
              ELSE <<>>)
          \o [i \in 1..(endPage - startPage + 1) |->
                Button("page", startPage + i - 1, startPage + i - 1 = page)]
          \o (IF endPage < totalPages
              THEN (IF endPage < totalPages - 1 THEN <<Ellipsis>> ELSE <<>>)
                   \o <<Button("page", totalPages, FALSE)>>
              ELSE <<>>)
          \o (IF page < totalPages THEN <<Button("next", page + 1, FALSE)>> ELSE <<>>)

\* renderPagination (lines 267-329): the strip that replaces the existing one.
renderPagination(posts, page) ==
  LET totalPages == totalPagesOf(posts)
      startPage == IF page - 2 > 1 THEN page - 2 ELSE 1
      endPage == IF page + 2 < totalPages THEN page + 2 ELSE totalPages
  IN IF totalPages <= 1 THEN NoPagination
     ELSE (IF page > 1 THEN <<Button("prev", page - 1, FALSE)>> ELSE <<>>)
          \o (IF startPage > 1
              THEN <<Button("page", 1, FALSE)>> \o (IF startPage > 2 THEN <<Ellipsis>> ELSE <<>>)
              ELSE <<>>)
          \o [i \in 1..(endPage - startPage + 1) |->
                Button("page", startPage + i - 1, startPage + i - 1 = page)]
          \o (IF endPage < totalPages
              THEN (IF endPage < totalPages - 1 THEN <<Ellipsis>> ELSE <<>>)
                   \o <<Button("page", totalPages, FALSE)>>
              ELSE <<>>)
          \o (IF page < totalPages THEN <<Button("next", page + 1, FALSE)>> ELSE <<>>)

\* renderBlogPosts (lines 153-185): nothing without a container; the empty
\* state, which returns before the pagination is touched; or the cards of
\* the current page and the pagination.
renderBlogPosts(container, list, strip, posts, page, filter) ==
  IF ~container THEN [postList |-> list, pagination |-> strip]
  ELSE IF Len(posts) = 0 THEN [postList |-> showEmptyState(filter), pagination |-> strip]
  ELSE LET postsToShow == slice(posts, (page - 1) * postsPerPage, (page - 1) * postsPerPage + postsPerPage)
       IN [postList |-> [kind |-> "cards",
                         cards |-> [i \in DOMAIN postsToShow |-> createBlogCard(postsToShow[i])],
                         filter |-> <<>>, reset |-> FALSE, onclick |-> <<>>],
           pagination |-> renderPagination(posts, page)]

\* The filter of filterByCategory (lines 237-243).
applyFilter(posts, category) ==
  IF category = All THEN posts
  ELSE SelectSeq(posts, LAMBDA post : categorySlug(post.category) = toLowerCase(category))

\* (A load failure that leaves the list empty.)
loadNoPosts == <<>>

\* loadFallbackPosts: the list that replaces the collection.
loadFallbackPosts == FallbackPosts

NoFetch == [status |-> "none", by |-> "none"]

\* The operation that ran last, with its argument or, for a load, what the
\* fetch delivered.
Op(op, arg) == [op |-> op, arg |-> arg]

BlogInit ==
  /\ hasBlogPosts \in BOOLEAN
  /\ blogPc = "new"
  /\ blogContainer = FALSE
  /\ blogPosts = <<>>
  /\ filteredPosts = <<>>
  /\ currentPage = 1
  /\ currentFilter = All
  /\ postList = StaticList
  /\ pagination = NoPagination
  /\ blogFetch = NoFetch
  /\ initOutcome = "none"
  /\ thrown = FALSE
  /\ lastOp = Op("new", <<>>)
  /\ loadsLeft = MaxLoads
  /\ addsLeft = MaxAdds

----------------------------------------------------------------------------
(* Operations of the blog manager *)

\* init (lines 16-34) up to await this.loadBlogPosts(): without the
\* container it logs and returns, otherwise the fetch of the data starts.
Blog_init ==
  /\ blogPc = "new"
  /\ blogFetch = NoFetch
  /\ blogContainer' = hasBlogPosts
  /\ lastOp' = Op("init", hasBlogPosts)
  /\ IF hasBlogPosts
     THEN /\ blogPc' = "loading"
          /\ blogFetch' = [status |-> "fetch", by |-> "init"]
          /\ UNCHANGED initOutcome
     ELSE /\ blogPc' = "ready"
          /\ initOutcome' = "returned"
          /\ UNCHANGED blogFetch
  /\ UNCHANGED <<hasBlogPosts, blogPosts, filteredPosts, currentPage, currentFilter,
                 postList, pagination, thrown, loadsLeft, addsLeft>>
  /\ UNCHANGED outsideBlog

\* loadBlogPosts called again after init: the fetch starts.
loadBlogPosts ==
  /\ blogPc = "ready"
  /\ blogFetch = NoFetch
  /\ loadsLeft > 0
  /\ loadsLeft' = loadsLeft - 1
  /\ blogFetch' = [status |-> "fetch", by |-> "call"]
  /\ thrown' = FALSE
  /\ lastOp' = Op("loadBlogPosts", <<>>)
  /\ UNCHANGED <<hasBlogPosts, blogPc, blogContainer, blogPosts, filteredPosts, currentPage,
                 currentFilter, postList, pagination, initOutcome, addsLeft>>
  /\ UNCHANGED outsideBlog

\* loadBlogPosts has set the two lists and returns.  A call made by init
\* goes on with setupFilters and renderBlogPosts, and init returns.
LoadReturns(posts, kind, document) ==
  LET shown == renderBlogPosts(blogContainer, postList, pagination, posts, currentPage, currentFilter)
  IN
  /\ blogPosts' = posts
  /\ filteredPosts' = posts
  /\ blogFetch' = NoFetch
  /\ lastOp' = Op("loaded", [by |-> blogFetch.by, kind |-> kind, document |-> document])
  /\ IF blogFetch.by = "init"
     THEN /\ postList' = shown.postList
          /\ pagination' = shown.pagination
          /\ blogPc' = "ready"
          /\ initOutcome' = "returned"
     ELSE UNCHANGED <<postList, pagination, blogPc, initOutcome>>
  /\ UNCHANGED <<hasBlogPosts, blogContainer, currentPage, currentFilter, thrown, loadsLeft, addsLeft>>
  /\ UNCHANGED outsideBlog

\* await fetch('assets/data/posts.json') settles: a success status, another
\* status (line 40-42 throws) or a network failure; the catch of line 53
\* falls back.
PostsResponse(outcome) ==
  /\ blogFetch.status = "fetch"
  /\ IF outcome = "ok"
     THEN /\ blogFetch' = [blogFetch EXCEPT !.status = "json"]
          /\ UNCHANGED <<hasBlogPosts, blogPc, blogContainer, blogPosts, filteredPosts,
                         currentPage, currentFilter, postList, pagination, initOutcome,
                         thrown, lastOp, loadsLeft, addsLeft>>
          /\ UNCHANGED outsideBlog
     ELSE LoadReturns(loadFallbackPosts, outcome, <<>>)

\* await response.json() settles with the parsed document: its posts are
\* sorted and become the collection.
PostsJson(document) ==
  /\ blogFetch.status = "json"
  /\ LoadReturns(sortPosts(document), "posts", document)

\* await response.json() rejects (the body is not JSON), or data.posts is
\* not an array and data.posts.sort throws: the catch falls back.
PostsMalformed(how) ==
  /\ blogFetch.status = "json"
  /\ how \in {"unparseable", "no posts"}
  /\ LoadReturns(loadFallbackPosts, how, <<>>)

\* filterByCategory (lines 233-246), on the collection given.
Filter(posts, category) ==
  LET filtered == applyFilter(posts, category)
      shown == renderBlogPosts(blogContainer, postList, pagination, filtered, 1, category)
  IN
  /\ currentFilter' = category
  /\ currentPage' = 1
  /\ filteredPosts' = filtered
  /\ postList' = shown.postList
  /\ pagination' = shown.pagination

filterByCategory(category) ==
  /\ blogPc # "new"
  /\ Filter(blogPosts, category)
  /\ thrown' = FALSE
  /\ lastOp' = Op("filterByCategory", category)
  /\ UNCHANGED <<hasBlogPosts, blogPc, blogContainer, blogPosts, blogFetch, initOutcome,
                 loadsLeft, addsLeft>>
  /\ UNCHANGED outsideBlog

\* The places of a pagination strip: Previous, first page, ellipsis, five
\* numbered pages, ellipsis, last page, Next.
StripPositions == 1..11

\* The click listener of a pagination button (lines 338-347).
clickPagination(k) ==
  LET shown == renderBlogPosts(blogContainer, postList, pagination, filteredPosts,
                               pagination[k].page, currentFilter)
  IN
  /\ k \in DOMAIN pagination
  /\ pagination[k].kind # "ellipsis"
  /\ currentPage' = pagination[k].page
  /\ postList' = shown.postList
  /\ pagination' = shown.pagination
  /\ thrown' = FALSE
  /\ lastOp' = Op("clickPagination", <<pagination[k].page>>)
  /\ UNCHANGED <<hasBlogPosts, blogPc, blogContainer, blogPosts, filteredPosts, currentFilter,
                 blogFetch, initOutcome, loadsLeft, addsLeft>>
  /\ UNCHANGED outsideBlog

\* A click on the Show All Posts button of the empty state.  Its handler
\* runs only if the onclick attribute compiled; it then clicks the filter
\* button of 'all', whose listener (line 142) calls filterByCategory.
clickReset ==
  /\ postList.kind = "empty"
  /\ postList.reset
  /\ lastOp' = Op("clickReset", <<>>)
  /\ thrown' = FALSE
  /\ IF compiles(postList.onclick)
     THEN Filter(blogPosts, All)
     ELSE UNCHANGED <<currentFilter, currentPage, filteredPosts, postList, pagination>>
  /\ UNCHANGED <<hasBlogPosts, blogPc, blogContainer, blogPosts, blogFetch, initOutcome,
                 loadsLeft, addsLeft>>
  /\ UNCHANGED outsideBlog

\* (A validation that does not look at the url.)
missingFieldsButUrl(postData) ==
  {field \in RequiredFields \ {"url"} :
     IF field = "category" THEN postData[field] = <<>> ELSE postData[field] = ""}

\* The required fields of addNewPost that postData lacks (line 355-356).
missingFields(postData) ==
  {field \in RequiredFields :
     IF field = "category" THEN postData[field] = <<>> ELSE postData[field] = ""}

\* addNewPost (lines 353-369): the validation throws, or the post is put in
\* front and the current filter is applied again.
addNewPost(postData) ==
  /\ blogPc = "ready"
  /\ addsLeft > 0
  /\ addsLeft' = addsLeft - 1
  /\ lastOp' = Op("addNewPost", postData)
  /\ IF missingFields(postData) # {}
     THEN /\ thrown' = TRUE
          /\ UNCHANGED <<blogPosts, filteredPosts, currentPage, currentFilter, postList, pagination>>
     ELSE /\ thrown' = FALSE
          /\ blogPosts' = <<postData>> \o blogPosts
          /\ Filter(<<postData>> \o blogPosts, currentFilter)
  /\ UNCHANGED <<hasBlogPosts, blogPc, blogContainer, blogFetch, initOutcome, loadsLeft>>
  /\ UNCHANGED outsideBlog

BlogNext ==
  \/ Blog_init
  \/ loadBlogPosts
  \/ \E outcome \in {"ok", "status", "network"} : PostsResponse(outcome)
  \/ \E document \in Documents : PostsJson(document)
  \/ \E how \in {"unparseable", "no posts"} : PostsMalformed(how)
  \/ \E category \in FilterValues : filterByCategory(category)
  \/ \E k \in StripPositions : clickPagination(k)
  \/ clickReset
  \/ \E postData \in NewPosts : addNewPost(postData)

\* The page with only the blog manager constructed.
BlogStart == BlogInit /\ LoaderAtRest /\ AppAtRest /\ ThemeAtRest /\ NavAtRest

BlogSpec == BlogStart /\ [][BlogNext]_vars

----------------------------------------------------------------------------
(* Properties of the blog manager *)

\* The last operation was a load that received a document of posts.
LoadedDocument == lastOp.op = "loaded" /\ lastOp.arg.kind = "posts"

\* The last operation was a load that failed.
LoadFailed ==
  lastOp.op = "loaded" /\ lastOp.arg.kind \in {"status", "network", "unparseable", "no posts"}

\* The place of a post in a list of distinct posts.
PlaceIn(posts, post) == CHOOSE i \in DOMAIN posts : posts[i] = post

\* The posts of a list of cards, in order.
PostsOf(cards) == [i \in DOMAIN cards |-> cards[i].post]

\* The first n elements of a list (all of it when it is shorter).
FirstOf(posts, n) == SubSeq(posts, 1, IF Len(posts) < n THEN Len(posts) ELSE n)

\* C14: after loadBlogPosts has succeeded on a document with valid dates,
\* blogPosts holds exactly the document's posts, newest first, posts of
\* equal date in the order of the document; the list init renders from it
\* shows the posts in that order.
C14_LoadSortsNewestFirstStable ==
  LoadedDocument =>
    LET document == lastOp.arg.document
    IN /\ Len(blogPosts) = Len(document)
       /\ {blogPosts[i] : i \in DOMAIN blogPosts} = {document[i] : i \in DOMAIN document}
       /\ \A i, j \in DOMAIN blogPosts :
            i < j =>
              \/ parseDate(blogPosts[i].date) > parseDate(blogPosts[j].date)
              \/ /\ parseDate(blogPosts[i].date) = parseDate(blogPosts[j].date)
                 /\ PlaceIn(document, blogPosts[i]) < PlaceIn(document, blogPosts[j])
       /\ (lastOp.arg.by = "init" /\ document # <<>>) =>
            /\ postList.kind = "cards"
            /\ PostsOf(postList.cards) = FirstOf(blogPosts, postsPerPage)

C14_Witness ==
  /\ LoadedDocument
  /\ lastOp.arg.by = "init"
  /\ blogPosts # lastOp.arg.document
  /\ \E i \in DOMAIN blogPosts :
       /\ i < Len(blogPosts)
       /\ blogPosts[i].id = "a2" /\ blogPosts[i + 1].id = "a1"
       /\ parseDate(blogPosts[i].date) = parseDate(blogPosts[i + 1].date)
  /\ postList.kind = "cards"

\* C15: when the load of the blog data has failed (network failure,
\* non-success status, unparseable body, document without a posts array),
\* the collection is exactly the embedded fallback list, and init has
\* returned without rejecting.
C15_FailedLoadGivesFallback ==
  /\ initOutcome # "rejected"
  /\ LoadFailed =>
       /\ blogPosts = FallbackPosts
       /\ Len(blogPosts) = 6
       /\ lastOp.arg.by = "init" => initOutcome = "returned"

C15_Witness ==
  /\ LoadFailed
  /\ lastOp.arg.by = "init"
  /\ lastOp.arg.kind = "no posts"
  /\ initOutcome = "returned"
  /\ postList.kind = "cards"

\* The normalised form of a category or filter value: lower case, every
\* run of whitespace replaced by one hyphen.
normalize(value) == replaceWhitespaceRuns(toLowerCase(value))

\* The posts of a collection that match a filter value as documented.
Matching(posts, category) ==
  IF category = All THEN posts
  ELSE SelectSeq(posts, LAMBDA post : normalize(post.category) = normalize(category))

\* C16: filterByCategory('all') selects every post; filterByCategory(c)
\* selects exactly the posts whose normalised category equals the
\* normalised c.
C16_FilterComparesNormalizedValues ==
  lastOp.op = "filterByCategory" => filteredPosts = Matching(blogPosts, lastOp.arg)

\* C17: after every filterByCategory call the current page is 1, the
\* filtered count is the number of posts of the collection that match the
\* new filter, and the list has been rendered again.
C17_FilterResetsPageAndCount ==
  lastOp.op = "filterByCategory" =>
    /\ currentFilter = lastOp.arg
    /\ currentPage = 1
    /\ Len(filteredPosts) = Len(Matching(blogPosts, currentFilter))
    /\ blogContainer => postList.kind \in {"cards", "empty"}

\* C18: in every state reached by filter changes, pagination clicks and
\* addNewPost calls after init, the current page is within
\* 1..ceil(filteredCount / postsPerPage), and is 1 when nothing matches.
C18_CurrentPageWithinRange ==
  loadsLeft = MaxLoads =>
    /\ currentPage >= 1
    /\ Len(filteredPosts) = 0 => currentPage = 1
    /\ Len(filteredPosts) > 0 => currentPage <= totalPagesOf(filteredPosts)

\* C19: whenever no operation of the blog manager is in progress, the
\* filtered list is the current filter applied to the current collection.
C19_FilteredListFollowsFilter ==
  (blogPc = "ready" /\ blogFetch = NoFetch) =>
    filteredPosts = applyFilter(blogPosts, currentFilter)

\* The cards rendered for page p of the current filtered list.
CardsOfPage(p) ==
  renderBlogPosts(TRUE, postList, pagination, filteredPosts, p, currentFilter).postList.cards

RECURSIVE PagesUpTo(_)
PagesUpTo(p) == IF p = 0 THEN <<>> ELSE PagesUpTo(p - 1) \o PostsOf(CardsOfPage(p))

\* The last operation rendered the list.
Rendered ==
  /\ blogContainer
  /\ \/ lastOp.op \in {"filterByCategory", "clickPagination"}
     \/ lastOp.op = "addNewPost" /\ ~thrown
     \/ lastOp.op = "loaded" /\ lastOp.arg.by = "init"

----------------------------------------------------------------------------
(***************************************************************************)
(* The pagination strip on its own: the blog page after init has loaded a  *)
(* document of n posts, and the clicks on the buttons of the strip.        *)
(***************************************************************************)

\* Largest number of posts of a loaded document.
MaxPosts == 49

\* The i-th post of a document whose posts share one date.
NumberedPost(i) ==
  Post(ToString(i), ToString(i), "2022-01-01", Experience, "pages/" \o ToString(i) \o ".html")

NumberedDocument(n) == [i \in 1..n |-> NumberedPost(i)]

\* The state in which init has returned after loading a document (lines 26-30).
PaginationStart ==
  /\ \E n \in 0..MaxPosts :
       LET document == NumberedDocument(n)
           posts == document  \* the stable sort keeps posts of one date in place
           shown == renderBlogPosts(TRUE, StaticList, NoPagination, posts, 1, All)
       IN /\ blogPosts = posts
          /\ filteredPosts = posts
          /\ postList = shown.postList
          /\ pagination = shown.pagination
          /\ lastOp = Op("loaded", [by |-> "init", kind |-> "posts", document |-> document])
  /\ hasBlogPosts = TRUE
  /\ blogPc = "ready"
  /\ blogContainer = TRUE
  /\ currentPage = 1
  /\ currentFilter = All
  /\ blogFetch = NoFetch
  /\ initOutcome = "returned"
  /\ thrown = FALSE
  /\ loadsLeft = 0
  /\ addsLeft = 0
  /\ LoaderAtRest
  /\ AppAtRest
  /\ ThemeAtRest
  /\ NavAtRest

PaginationNext == \E k \in StripPositions : clickPagination(k)

PaginationSpec == PaginationStart /\ [][PaginationNext]_vars

\* The places of the strip that hold a button or span of the kind given.
PlacesOf(kind) == {k \in DOMAIN pagination : pagination[k].kind = kind}

\* The place of the button of the current page.
CurrentPlace == CHOOSE k \in PlacesOf("page") : pagination[k].page = currentPage

Max(a, b) == IF a > b THEN a ELSE b

Min(a, b) == IF a < b THEN a ELSE b

ResetScript == SelectSeq(ResetMarkup, LAMBDA piece : TRUE)

\* The list offers a working reset-to-all action.
OffersReset == postList.reset /\ postList.onclick = ResetScript /\ compiles(postList.onclick)

\* C22: when the filtered list is empty at a rendering, the list shows the
\* empty-state message and no card; the message names the active filter
\* iff it is not 'all', and a reset-to-all action is offered iff it is
\* not 'all'.
C22_EmptyStateNamesFilterAndOffersReset ==
  (Rendered /\ filteredPosts = <<>>) =>
    /\ postList.kind = "empty"
    /\ postList.cards = <<>>
    /\ postList.filter = (IF currentFilter # All THEN currentFilter ELSE <<>>)
    /\ OffersReset <=> (currentFilter # All)

\* The post lacks a required field.
Incomplete(post) ==
  \/ post.id = "" \/ post.title = "" \/ post.excerpt = ""
  \/ post.date = "" \/ post.category = <<>> \/ post.url = ""

\* C23: an addNewPost call with a post that lacks a required field fails,
\* and the collection, the filtered list, the filter, the page and what is
\* rendered stay as they were.
C23_IncompletePostChangesNothing ==
  [][(addsLeft' < addsLeft /\ Incomplete(lastOp'.arg)) =>
       /\ thrown'
       /\ UNCHANGED <<blogPosts, filteredPosts, currentFilter, currentPage, postList, pagination>>]_vars

C23_Witness ==
  /\ lastOp.op = "addNewPost"
  /\ lastOp.arg.url = ""
  /\ thrown
  /\ Len(blogPosts) = 13
  /\ currentFilter = ExperienceSlug
  /\ currentPage = 2

\* C24: the ids of the posts of the collection are pairwise distinct, also
\* after addNewPost was called with a post whose id is already there.
C24_PostIdsDistinct ==
  \A i, j \in DOMAIN blogPosts : i # j => blogPosts[i].id # blogPosts[j].id

\* C25: once the initial load is over the collection is ordered newest
\* first, also after addNewPost added a post older than an existing one.
C25_CollectionNewestFirst ==
  (blogContainer /\ initOutcome = "returned") =>
    \A i, j \in DOMAIN blogPosts :
      i < j => parseDate(blogPosts[i].date) >= parseDate(blogPosts[j].date)

----------------------------------------------------------------------------
(***************************************************************************)
(* Part 4: ThemeManager (assets/js/modules/theme-manager.js, the module    *)
(* the application imports), running in the browsing contexts of one       *)
(* origin.  localStorage is shared by the contexts; a write that changes   *)
(* the value queues a storage event in every other context, and an event   *)
(* is handled when its task runs there.                                    *)
(***************************************************************************)

\* this.storageKey, and some other key of the same storage.
storageKey == "mitch-portfolio-theme"

OtherKey == "some-other-key"

\* getItem of an absent key, and newValue of a removal.
Null == "null"

Contexts == {"tab1", "tab2"}

\* What another page of the origin may store under the key.
ForeignValues == {"light", "dark", "auto", Null}

\* Storage events waiting in one context.
MaxPending == 2

\* loadUserPreference (lines 25-35): currentTheme, 'light' at construction,
\* after the read of the storage.
loadUserPreference(saved, readable) ==
  IF readable /\ saved # Null /\ saved \in {"light", "dark"} THEN saved ELSE "light"

\* icons[this.currentTheme] of updateToggleButton (lines 124-129).
icons(theme) ==
  IF theme = "light" THEN "moon" ELSE IF theme = "dark" THEN "sun" ELSE "undefined"

NoToggles == [context |-> "", before |-> <<>>]

\* Theme, stored value and data-theme attribute of a context.
Snapshot(c) == [theme |-> currentTheme[c], stored |-> themeStorage, applied |-> dataTheme[c]]

ThemeInit ==
  /\ themeStorage \in ForeignValues
  /\ themePc = [c \in Contexts |-> "new"]
  /\ currentTheme = [c \in Contexts |-> "light"]
  /\ dataTheme = [c \in Contexts |-> Null]
  /\ toggleIcon = [c \in Contexts |-> Null]
  /\ storageEvents = [c \in Contexts |-> <<>>]
  /\ recentToggles = NoToggles
  /\ interference = FALSE

\* init (lines 11-23): loadUserPreference, applyTheme, setupEventListeners,
\* createThemeToggle with updateToggleButton, addThemeCSS.
Theme_init(c, readable) ==
  LET theme == loadUserPreference(themeStorage, readable)
  IN
  /\ themePc[c] = "new"
  /\ themePc' = [themePc EXCEPT ![c] = "ready"]
  /\ currentTheme' = [currentTheme EXCEPT ![c] = theme]
  /\ dataTheme' = [dataTheme EXCEPT ![c] = theme]
  /\ toggleIcon' = [toggleIcon EXCEPT ![c] = icons(theme)]
  /\ recentToggles' = NoToggles
  /\ interference' = (interference \/ ~readable)
  /\ UNCHANGED <<themeStorage, storageEvents>>
  /\ UNCHANGED outsideTheme

\* Every context but the writer has room for one more storage event.
CanQueue(writer) == \A d \in Contexts \ {writer} : Len(storageEvents[d]) < MaxPending

\* The storage events a write queues: one in every context but the writer's.
Queued(writer, key, newValue) ==
  [d \in Contexts |->
     IF d = writer THEN storageEvents[d]
     ELSE Append(storageEvents[d], [key |-> key, newValue |-> newValue])]

\* toggleTheme (lines 139-144): flip, saveUserPreference (setItem may throw,
\* which is caught and logged), applyTheme, updateToggleButton.
toggleTheme(c, writable) ==
  LET theme == IF currentTheme[c] = "light" THEN "dark" ELSE "light"
  IN
  /\ themePc[c] = "ready"
  /\ CanQueue(c)
  /\ currentTheme' = [currentTheme EXCEPT ![c] = theme]
  /\ IF writable
     THEN /\ themeStorage' = theme
          /\ storageEvents' = IF themeStorage # theme THEN Queued(c, storageKey, theme)
                              ELSE storageEvents
          /\ UNCHANGED interference
     ELSE /\ interference' = TRUE
          /\ UNCHANGED <<themeStorage, storageEvents>>
  /\ dataTheme' = [dataTheme EXCEPT ![c] = theme]
  /\ toggleIcon' = [toggleIcon EXCEPT ![c] = icons(theme)]
  /\ recentToggles' =
       [context |-> c,
        before |-> IF recentToggles.context = c /\ recentToggles.before # <<>>
                   THEN <<recentToggles.before[Len(recentToggles.before)], Snapshot(c)>>
                   ELSE <<Snapshot(c)>>]
  /\ UNCHANGED themePc
  /\ UNCHANGED outsideTheme

\* The storage listener (lines 62-68) handles the oldest event waiting in
\* the context; before init there is no listener.
StorageEvent(c) ==
  LET e == Head(storageEvents[c])
  IN
  /\ storageEvents[c] # <<>>
  /\ storageEvents' = [storageEvents EXCEPT ![c] = Tail(storageEvents[c])]
  /\ IF themePc[c] = "ready" /\ e.key = storageKey /\ e.newValue # Null /\ e.newValue # ""
     THEN /\ currentTheme' = [currentTheme EXCEPT ![c] = e.newValue]
          /\ dataTheme' = [dataTheme EXCEPT ![c] = e.newValue]
          /\ toggleIcon' = [toggleIcon EXCEPT ![c] = icons(e.newValue)]
     ELSE UNCHANGED <<currentTheme, dataTheme, toggleIcon>>
  /\ recentToggles' = NoToggles
  /\ UNCHANGED <<themeStorage, themePc, interference>>
  /\ UNCHANGED outsideTheme

\* Another page of the origin sets or removes a key of the storage.
otherContextWrites(key, value) ==
  /\ CanQueue("another page")
  /\ key = storageKey => themeStorage # value
  /\ themeStorage' = IF key = storageKey THEN value ELSE themeStorage
  /\ storageEvents' = Queued("another page", key, value)
  /\ interference' = TRUE
  /\ recentToggles' = NoToggles
  /\ UNCHANGED <<themePc, currentTheme, dataTheme, toggleIcon>>
  /\ UNCHANGED outsideTheme

ThemeNext ==
  \/ \E c \in Contexts, readable \in BOOLEAN : Theme_init(c, readable)
  \/ \E c \in Contexts, writable \in BOOLEAN : toggleTheme(c, writable)
  \/ \E c \in Contexts : StorageEvent(c)
  \/ \E key \in {storageKey, OtherKey}, value \in ForeignValues : otherContextWrites(key, value)

\* The contexts loaded, their controllers constructed.
ThemeStart == ThemeInit /\ LoaderAtRest /\ AppAtRest /\ BlogAtRest /\ NavAtRest

ThemeSpec == ThemeStart /\ [][ThemeNext]_vars

----------------------------------------------------------------------------
(* Properties of the theme controller *)

Themes == {"light", "dark"}

\* The step is a toggleTheme call in context c.
ToggleStep(c) == recentToggles'.context = c /\ recentToggles'.before # <<>>

\* C26: a toggleTheme call flips the theme between light and dark, stores
\* the new value under the key and applies it to the document root; a
\* controller initialised afterwards from the storage starts in that value;
\* the second of two consecutive toggles brings theme, stored value and
\* applied attribute back to what they were before the first.
C26_ToggleFlipsStoresApplies ==
  [][\A c \in Contexts :
       ToggleStep(c) =>
         /\ currentTheme'[c] \in Themes
         /\ currentTheme'[c] # currentTheme[c]
         /\ themeStorage' = currentTheme'[c]
         /\ dataTheme'[c] = currentTheme'[c]
         /\ loadUserPreference(themeStorage', TRUE) = currentTheme'[c]
         /\ Len(recentToggles'.before) = 2 =>
              [theme |-> currentTheme'[c], stored |-> themeStorage', applied |-> dataTheme'[c]]
                = recentToggles'.before[1]]_vars

\* C27: the theme of an initialised controller and the data-theme
\* attribute it applied are light or dark in every reachable state,
\* whatever value a storage event carries.
C27_ThemeIsLightOrDark ==
  \A c \in Contexts :
    themePc[c] = "ready" => (currentTheme[c] \in Themes /\ dataTheme[c] \in Themes)

\* C28: after init, once the storage events of a context have been handled,
\* the theme applied there is the value saved under the key, and light
\* when none is saved.
C28_AppliedThemeIsSavedTheme ==
  \A c \in Contexts :
    (themePc[c] = "ready" /\ storageEvents[c] = <<>>) =>
      dataTheme[c] = (IF themeStorage = Null THEN "light" ELSE themeStorage)

\* C29: with toggles and event deliveries only (every write succeeds, no
\* other page writes), once no storage event is pending every context's
\* applied theme is the stored value.
C29_ContextsAgreeOnceEventsDelivered ==
  ( /\ ~interference
    /\ themeStorage \in Themes
    /\ \A c \in Contexts : themePc[c] = "ready" /\ storageEvents[c] = <<>> )
  => \A c \in Contexts : dataTheme[c] = themeStorage

----------------------------------------------------------------------------
(***************************************************************************)
(* Part 5: Navigation (assets/js/modules/navigation.js).  The header       *)
(* fragment holds the toggle control, the menu and the links, so a click   *)
(* on one of them is a click inside the navigation region.  An action is   *)
(* one event with every listener the controller registered for it, in the  *)
(* order of registration.  ariaExpanded stands for the toggle's 'active'   *)
(* class as well, which is set and removed together with it.               *)
(***************************************************************************)

\* this.scrollThreshold = 50
scrollThreshold == 50

\* window.innerWidth and the scroll offsets of the runs.
Widths == {375, 768, 769}

Offsets == {0, 50, 51, 101}

ClickTargets == {"toggle", "link", "header", "outside"}

KeyNames == {"Escape", "Tab", "Shift+Tab", "a", "Alt+T", "Alt+M"}

\* A pathname and an href are sequences of pieces, each "/" or a name.
HomeLink == <<"index.html">>

BlogLink == <<"blog.html">>

\* The links of the header and the page the runs are on.
SiteLinks == <<HomeLink, BlogLink>>

BlogPath == <<"/", "blog.html">>

\* The text of a sequence of pieces: link.getAttribute('href').
RECURSIVE join(_)
join(pieces) == IF pieces = <<>> THEN "" ELSE pieces[1] \o join(Tail(pieces))

\* pathname.split('/')
RECURSIVE split(_)
split(pieces) ==
  IF pieces = <<>> THEN <<"">>
  ELSE IF pieces[1] = "/" THEN <<"">> \o split(Tail(pieces))
  ELSE LET rest == split(Tail(pieces)) IN <<pieces[1] \o rest[1]>> \o Tail(rest)

\* array.pop()
pop(array) == array[Len(array)]

\* const currentPage = window.location.pathname.split('/').pop() || 'index.html'
currentPageOf(path) == IF pop(split(path)) = "" THEN "index.html" ELSE pop(split(path))

\* const isActive = ... (lines 218-220)
isActive(href, page) ==
  \/ href = page
  \/ page = "" /\ href = "index.html"
  \/ page = "index.html" /\ href = "index.html"

\* setActiveNavLink (lines 213-230): the links that get class 'active' and
\* aria-current = 'page'.
setActiveNavLink(links, path) ==
  {k \in DOMAIN links : isActive(join(links[k]), currentPageOf(path))}

\* (A breakpoint test that counts 768px as desktop.)
isMobileBelow(width) == width < 768

\* const isMobile = window.innerWidth <= 768 (line 160)
isMobile(width) == width <= 768

\* if (currentScrollY > 100) of the loader's header scroll effect
\* (component-loader.js line 393)
headerScrollEffect(offset) == offset > 100

NoEvent == [type |-> "none", detail |-> ""]

\* The fields of a Navigation just constructed, on a page nobody has
\* touched.
NavFresh ==
  /\ navPc = "new"
  /\ isMenuOpen = FALSE
  /\ isScrolled = FALSE
  /\ scrolledClass = FALSE
  /\ menuClass = FALSE
  /\ ariaExpanded = "false"
  /\ toggleClone = "none"
  /\ bodyOverflow = ""
  /\ activeElement = "body"
  /\ activeLinks = {}
  /\ focusTimer = FALSE
  /\ scrollTimer = 0
  /\ loaderScrollTimer = 0
  /\ resizeTimer = 0
  /\ navEvent = NoEvent
  /\ dispatched = <<>>

\* The elements the page offers to cacheElements, the window.
NavPage ==
  /\ navbar \in BOOLEAN
  /\ navbarToggle \in (IF navbar THEN BOOLEAN ELSE {FALSE})
  /\ navbarMenu \in (IF navbar THEN BOOLEAN ELSE {FALSE})
  /\ navLinks \in (IF navbar THEN {0, 2} ELSE {0})
  /\ linkHrefs = IF navLinks = 2 THEN SiteLinks ELSE <<>>
  /\ pathname = BlogPath
  /\ innerWidth \in Widths
  /\ scrollTop \in Offsets

\* A Navigation on its own, without the application around it.
NavInit == NavFresh /\ NavPage /\ bootstrapped = FALSE

\* What openMobileMenu (lines 96-119) leaves: the flag, the classes, the
\* attribute, the body's overflow, the focus timer, the event dispatched.
openMobileMenu ==
  [isMenuOpen |-> TRUE,
   menuClass |-> navbarMenu,
   ariaExpanded |-> IF navbarToggle THEN "true" ELSE ariaExpanded,
   bodyOverflow |-> "hidden",
   focusTimer |-> focusTimer \/ navLinks > 0,
   dispatched |-> <<"navigation:menu-opened">>]

\* What closeMobileMenu (lines 122-139) leaves.
closeMobileMenu ==
  [isMenuOpen |-> FALSE,
   menuClass |-> FALSE,
   ariaExpanded |-> IF navbarToggle THEN "false" ELSE ariaExpanded,
   bodyOverflow |-> "",
   focusTimer |-> focusTimer,
   dispatched |-> <<"navigation:menu-closed">>]

\* No menu method ran.
menuUntouched ==
  [isMenuOpen |-> isMenuOpen, menuClass |-> menuClass, ariaExpanded |-> ariaExpanded,
   bodyOverflow |-> bodyOverflow, focusTimer |-> focusTimer, dispatched |-> <<>>]

\* toggleMobileMenu (lines 87-93)
toggleMobileMenu == IF isMenuOpen THEN closeMobileMenu ELSE openMobileMenu

\* closeMobileMenu called once more, after the handler that left m.
closeAgain(m) ==
  [closeMobileMenu EXCEPT !.focusTimer = m.focusTimer,
                          !.dispatched = m.dispatched \o <<"navigation:menu-closed">>]

\* The menu state after a handler, and the events it dispatched followed
\* by those given.
Menu(m, more) ==
  /\ isMenuOpen' = m.isMenuOpen
  /\ menuClass' = m.menuClass
  /\ ariaExpanded' = m.ariaExpanded
  /\ bodyOverflow' = m.bodyOverflow
  /\ focusTimer' = m.focusTimer
  /\ dispatched' = m.dispatched \o more

\* (A handler that counts the threshold itself as scrolled.)
handleScrollFromThreshold(offset) ==
  LET shouldBeScrolled == offset >= scrollThreshold
  IN [isScrolled |-> shouldBeScrolled,
      scrolledClass |-> IF shouldBeScrolled # isScrolled /\ navbar THEN shouldBeScrolled ELSE scrolledClass,
      dispatched |-> IF shouldBeScrolled # isScrolled THEN <<"navigation:scroll-change">> ELSE <<>>]

\* handleScroll (lines 142-156) at the offset given: the flag, the header's
\* 'scrolled' class and what is dispatched.
handleScroll(offset) ==
  LET shouldBeScrolled == offset > scrollThreshold
  IN [isScrolled |-> shouldBeScrolled,
      scrolledClass |-> IF shouldBeScrolled # isScrolled /\ navbar THEN shouldBeScrolled ELSE scrolledClass,
      dispatched |-> IF shouldBeScrolled # isScrolled THEN <<"navigation:scroll-change">> ELSE <<>>]

\* The page and the elements cached, which no handler changes.
navPage == <<navbar, navbarToggle, navbarMenu, navLinks, linkHrefs, pathname, bootstrapped>>

\* The listeners of Navigation are registered; those of the application
\* are (App.setupGlobalEvents runs also when Navigation.init has failed).
NavListens == navPc = "ready"

AppListens == bootstrapped /\ navPc \in {"ready", "failed"}

\* init (lines 16-26): cacheElements throws without .site-header and the
\* catch logs it; otherwise the listeners are set up, the active link is
\* marked and handleScroll runs.
Nav_init ==
  /\ navPc = "new"
  /\ navEvent' = [type |-> "init", detail |-> ""]
  /\ IF navbar
     THEN /\ navPc' = "ready"
          /\ activeLinks' = setActiveNavLink(linkHrefs, pathname)
          /\ isScrolled' = handleScroll(scrollTop).isScrolled
          /\ scrolledClass' = handleScroll(scrollTop).scrolledClass
          /\ dispatched' = handleScroll(scrollTop).dispatched
     ELSE /\ navPc' = "failed"
          /\ UNCHANGED <<activeLinks, isScrolled, scrolledClass, dispatched>>
  /\ UNCHANGED <<navPage, isMenuOpen, menuClass, ariaExpanded, toggleClone, bodyOverflow,
                 activeElement, focusTimer, innerWidth, scrollTop, scrollTimer,
                 loaderScrollTimer, resizeTimer>>
  /\ UNCHANGED outsideNav

\* A click: the toggle's listener (lines 44-47), a link's listener (lines
\* 52-56), then the document's listener (lines 60-64), for which only a
\* target outside .site-header counts.  The toggle is the element the
\* controller cached: once destroy has replaced it in the page it cannot
\* be clicked, and its copy is one more element of the header.
click(target) ==
  /\ NavListens
  /\ target = "toggle" => navbarToggle /\ toggleClone = "none"
  /\ target = "link" => navLinks > 0
  /\ navEvent' = [type |-> "click", detail |-> target]
  /\ Menu(CASE target = "toggle" -> toggleMobileMenu
            [] target = "link" /\ isMenuOpen -> closeMobileMenu
            [] target = "outside" /\ isMenuOpen -> closeMobileMenu
            [] OTHER -> menuUntouched, <<>>)
  /\ UNCHANGED <<navPc, navPage, isScrolled, scrolledClass, toggleClone, activeElement,
                 activeLinks, innerWidth, scrollTop, scrollTimer, loaderScrollTimer, resizeTimer>>
  /\ UNCHANGED outsideNav

\* The focus after handleTabNavigation (lines 189-210) and the browser's
\* own move of the focus: the handler wraps at the ends of the menu, and
\* throws when there is no .navbar-menu.
FocusAfterTab(shift) ==
  IF ~navbarMenu \/ navLinks = 0 THEN {"body", "toggle"}
  ELSE IF shift /\ activeElement = "link1" THEN {"link2"}
  ELSE IF ~shift /\ activeElement = "link2" THEN {"link1"}
  ELSE IF shift THEN {"toggle", "link1"} ELSE {"link1", "link2"}

\* keydown: handleKeyboard (lines 172-186), then the listener of the
\* application (part_003 lines 288-293), which calls closeMobileMenu on
\* every Escape.
keydown(key) ==
  LET handled == NavListens /\ isMenuOpen
      m == IF handled /\ key = "Escape" THEN closeMobileMenu ELSE menuUntouched
  IN
  /\ NavListens \/ AppListens
  /\ navEvent' = [type |-> "keydown", detail |-> key]
  /\ Menu(IF AppListens /\ key = "Escape" THEN closeAgain(m) ELSE m, <<>>)
  /\ IF handled /\ key = "Escape"
     THEN activeElement' = IF navbarToggle THEN "toggle" ELSE activeElement
     ELSE IF handled /\ key \in {"Tab", "Shift+Tab"}
     THEN activeElement' \in FocusAfterTab(key = "Shift+Tab")
     ELSE UNCHANGED activeElement
  /\ UNCHANGED <<navPc, navPage, isScrolled, scrolledClass, toggleClone, activeLinks,
                 innerWidth, scrollTop, scrollTimer, loaderScrollTimer, resizeTimer>>
  /\ UNCHANGED outsideNav

\* resize: handleResize (lines 159-169); the listener of the application
\* (part_003 lines 248-254) restarts its 150 ms timer.
resize(width) ==
  /\ NavListens \/ AppListens
  /\ innerWidth' = width
  /\ navEvent' = [type |-> "resize", detail |-> ""]
  /\ IF NavListens
     THEN Menu(IF ~isMobile(width) /\ isMenuOpen THEN closeMobileMenu ELSE menuUntouched,
               <<"navigation:resize">>)
     ELSE Menu(menuUntouched, <<>>)
  /\ resizeTimer' = IF AppListens THEN 1 ELSE resizeTimer
  /\ UNCHANGED <<navPc, navPage, isScrolled, scrolledClass, toggleClone, activeElement,
                 activeLinks, scrollTop, scrollTimer, loaderScrollTimer>>
  /\ UNCHANGED outsideNav

\* The timer of openMobileMenu (line 114) focuses the first link.
focusTimerFires ==
  /\ focusTimer
  /\ focusTimer' = FALSE
  /\ activeElement' = "link1"
  /\ navEvent' = [type |-> "timer", detail |-> "focus"]
  /\ dispatched' = <<>>
  /\ UNCHANGED <<navPc, navPage, isMenuOpen, isScrolled, scrolledClass, menuClass, ariaExpanded,
                 toggleClone, bodyOverflow, activeLinks, innerWidth, scrollTop, scrollTimer,
                 loaderScrollTimer, resizeTimer>>
  /\ UNCHANGED outsideNav

\* clearTimeout(scrollTimeout); scrollTimeout = setTimeout(...): the timers
\* pending after a listener has restarted its timer.
restartTimer(pending) == 1

\* scroll: the listener of lines 68-73 restarts the 10 ms timer, and so
\* does the listener of the loader's header scroll effect
\* (component-loader.js lines 409-414), which was registered first.
scroll(offset) ==
  /\ NavListens
  /\ offset # scrollTop
  /\ scrollTop' = offset
  /\ scrollTimer' = restartTimer(scrollTimer)
  /\ loaderScrollTimer' = IF bootstrapped THEN restartTimer(loaderScrollTimer) ELSE loaderScrollTimer
  /\ navEvent' = [type |-> "scroll", detail |-> ""]
  /\ dispatched' = <<>>
  /\ UNCHANGED <<navPc, navPage, isMenuOpen, isScrolled, scrolledClass, menuClass, ariaExpanded,
                 toggleClone, bodyOverflow, activeElement, activeLinks, focusTimer, innerWidth,
                 resizeTimer>>
  /\ UNCHANGED outsideNav

\* The scroll timer fires: handleScroll.  The loader's timer, set just
\* before it with the same delay, has fired by then.
scrollTimerFires ==
  /\ scrollTimer > 0
  /\ loaderScrollTimer = 0
  /\ scrollTimer' = scrollTimer - 1
  /\ isScrolled' = handleScroll(scrollTop).isScrolled
  /\ scrolledClass' = handleScroll(scrollTop).scrolledClass
  /\ dispatched' = handleScroll(scrollTop).dispatched
  /\ navEvent' = [type |-> "timer", detail |-> "scroll"]
  /\ UNCHANGED <<navPc, navPage, isMenuOpen, menuClass, ariaExpanded, toggleClone, bodyOverflow,
                 activeElement, activeLinks, focusTimer, innerWidth, scrollTop,
                 loaderScrollTimer, resizeTimer>>
  /\ UNCHANGED outsideNav

\* destroy (lines 309-319): the toggle is replaced in the page by a copy
\* without listeners, which keeps the attributes and classes the toggle
\* had; then closeMobileMenu, which works on the element cached.
destroy ==
  LET replaced == navbarToggle /\ toggleClone = "none"
  IN
  /\ NavListens
  /\ navEvent' = [type |-> "call", detail |-> "destroy"]
  /\ toggleClone' = IF replaced THEN ariaExpanded ELSE toggleClone
  /\ activeElement' = IF replaced /\ activeElement = "toggle" THEN "body" ELSE activeElement
  /\ Menu(closeMobileMenu, <<>>)
  /\ UNCHANGED <<navPc, navPage, isScrolled, scrolledClass, activeLinks, innerWidth, scrollTop,
                 scrollTimer, loaderScrollTimer, resizeTimer>>
  /\ UNCHANGED outsideNav

NavNext ==
  \/ Nav_init
  \/ \E target \in ClickTargets : click(target)
  \/ \E key \in KeyNames : keydown(key)
  \/ \E width \in Widths : resize(width)
  \/ focusTimerFires
  \/ \E offset \in Offsets : scroll(offset)
  \/ scrollTimerFires
  \/ destroy

\* The page with the header fragment mounted or not, the controller constructed.
NavStart == NavInit /\ LoaderAtRest /\ AppAtRest /\ BlogAtRest /\ ThemeAtRest

NavSpec == NavStart /\ [][NavNext]_vars

\* A timer that is pending fires: the 10 ms timer of the scroll listener
\* is not starved by the other events.
NavLiveSpec == NavSpec /\ WF_vars(scrollTimerFires)

\* setActiveNavLink over the links and the paths a site can have: hrefs
\* relative to the page and rooted ones, a link twice, paths of pages and
\* of directories.
RootedBlogLink == <<"/", "blog.html">>

Hrefs == {HomeLink, BlogLink, RootedBlogLink}

MaxLinks == 3

LinkLists == UNION {[1..n -> Hrefs] : n \in 0..MaxLinks}

Pathnames ==
  {<<"/">>, <<"/", "index.html">>, BlogPath, <<"/", "about.html">>,
   <<"/", "blog", "/">>, <<"/", "blog", "/", "index.html">>}

LinksInit ==
  /\ NavFresh
  /\ bootstrapped = FALSE
  /\ navbar = TRUE
  /\ navbarToggle = TRUE
  /\ navbarMenu = TRUE
  /\ linkHrefs \in LinkLists
  /\ navLinks = Len(linkHrefs)
  /\ pathname \in Pathnames
  /\ innerWidth = 375
  /\ scrollTop = 0

LinksStart == LinksInit /\ LoaderAtRest /\ AppAtRest /\ BlogAtRest /\ ThemeAtRest

LinksNext == Nav_init

LinksSpec == LinksStart /\ [][LinksNext]_vars

\* The running application: App.init (part_003 lines 20-45) has mounted
\* the header, whose initialisation by the loader registered the header
\* scroll effect, and has constructed the Navigation and the ThemeManager;
\* their init calls are the first steps, and the listeners of the
\* application (setupGlobalEvents, lines 246-265) are there when the first
\* event comes.  The page is that of a first visit, with nothing stored,
\* and it is the only one of its origin that runs.
ThisPage == "tab1"

\* The timer of the loader's header scroll effect fires
\* (component-loader.js lines 387-406): the class follows the offset.
loaderScrollTimerFires ==
  /\ loaderScrollTimer > 0
  /\ loaderScrollTimer' = loaderScrollTimer - 1
  /\ scrolledClass' = IF navbar THEN headerScrollEffect(scrollTop) ELSE scrolledClass
  /\ navEvent' = [type |-> "timer", detail |-> "header scroll effect"]
  /\ dispatched' = <<>>
  /\ UNCHANGED <<navPc, navPage, isMenuOpen, isScrolled, menuClass, ariaExpanded, toggleClone,
                 bodyOverflow, activeElement, activeLinks, focusTimer, innerWidth, scrollTop,
                 scrollTimer, resizeTimer>>
  /\ UNCHANGED outsideNav

\* The 150 ms timer of the application's resize listener fires:
\* App.handleResize (part_003 lines 268-276) calls navigation.handleResize
\* and dispatches app:resize.
resizeTimerFires ==
  /\ resizeTimer > 0
  /\ resizeTimer' = resizeTimer - 1
  /\ navEvent' = [type |-> "timer", detail |-> "resize"]
  /\ Menu(IF ~isMobile(innerWidth) /\ isMenuOpen THEN closeMobileMenu ELSE menuUntouched,
          <<"navigation:resize", "app:resize">>)
  /\ UNCHANGED <<navPc, navPage, isScrolled, scrolledClass, toggleClone, activeElement,
                 activeLinks, innerWidth, scrollTop, scrollTimer, loaderScrollTimer>>
  /\ UNCHANGED outsideNav

\* The page of the running application: the header mounted with its
\* toggle, menu and links, or the header missing.
RunningInit ==
  /\ NavFresh
  /\ bootstrapped = TRUE
  /\ navbar \in BOOLEAN
  /\ navbarToggle = navbar
  /\ navbarMenu = navbar
  /\ navLinks = (IF navbar THEN 2 ELSE 0)
  /\ linkHrefs = IF navbar THEN SiteLinks ELSE <<>>
  /\ pathname = BlogPath
  /\ innerWidth \in Widths
  /\ scrollTop = 0

RunningStart ==
  RunningInit /\ LoaderAtRest /\ AppAtRest /\ BlogAtRest /\ ThemeInit /\ themeStorage = Null

\* App.init calls the two init methods one after the other (lines 33 and
\* 36); the events of the page come after it has returned.
PageStarted == navPc # "new" /\ themePc[ThisPage] = "ready"

RunningNext ==
  \/ Nav_init
  \/ navPc # "new" /\ Theme_init(ThisPage, TRUE)
  \/ PageStarted /\ \E target \in ClickTargets : click(target)
  \/ PageStarted /\ \E key \in KeyNames : keydown(key)
  \/ PageStarted /\ \E width \in Widths : resize(width)
  \/ focusTimerFires
  \/ resizeTimerFires
  \/ PageStarted /\ \E offset \in Offsets : scroll(offset)
  \/ loaderScrollTimerFires
  \/ scrollTimerFires
  \/ PageStarted /\ destroy
  \/ toggleTheme(ThisPage, TRUE)

RunningSpec == RunningStart /\ [][RunningNext]_vars

----------------------------------------------------------------------------
(***************************************************************************)
(* Claims about the navigation controller.                                 *)
(***************************************************************************)

\* The event that led to the state a step ends in.
IsClick(e, target) == e.type = "click" /\ e.detail = target

IsEscape(e) == e.type = "keydown" /\ e.detail = "Escape"

\* One of the four events that close an open menu; the resize is one to a
\* width above 768px.
ClosingEvent(e, width) ==
  \/ IsClick(e, "link")
  \/ IsClick(e, "outside")
  \/ IsEscape(e)
  \/ e.type = "resize" /\ width > 768

IsDestroy(e) == e.type = "call" /\ e.detail = "destroy"

----------------------------------------------------------------------------
(* Further properties of the component loader *)

\* C34: clearCache(name) removes the cache entry of name and leaves every
\* other cache entry and the in-flight map as they were; clearCache() without
\* a name removes every cache entry; no operation but clearCache and
\* reloadComponent removes a cache entry, a failed load and a failed preload
\* of a cached name included.
C34_OnlyClearAndReloadRemoveEntries ==
  [][LET op == loaderOp'
     IN /\ (op.op = "clearCache" /\ op.name # NoName)
             => /\ ~CacheHas(cache', op.name)
                /\ \A n \in Names \ {op.name} : cache'[n] = cache[n]
                /\ loadingComponents' = loadingComponents
        /\ (op.op = "clearCache" /\ op.name = NoName)
             => \A n \in Names : ~CacheHas(cache', n)
        /\ \A n \in Names :
             (CacheHas(cache, n) /\ ~CacheHas(cache', n))
               => op.op = "clearCache" \/ (op.op = "reloadComponent" /\ op.name = n)]_vars

\* The preload of "header" has failed and its entry, cached before, is still
\* there, while the preloaded entry of "header-nav" was cleared by name.
C34_Witness ==
  /\ preloads["header"].pc = "failed"
  /\ CacheHas(cache, "header")
  /\ preloads["header-nav"].pc = "done"
  /\ ~CacheHas(cache, "header-nav")
  /\ loaderOp = LoaderOp("clearCache", "header-nav")

\* The number of times the callback of the kind given, passed with call i,
\* was invoked: the invocations made by the run of _loadComponentInternal
\* that received the options of call i.
Invocations(i, callback) == Cardinality(Positions(loads[i].trace, callback))

\* C36: every loadComponent call made with an onLoad callback that has
\* resolved has had that callback invoked exactly once, and every call made
\* with an onError callback that has rejected has had that callback invoked
\* exactly once, also when the call joined a load already in flight for its
\* (name, selector) pair.
C36_CallbacksOncePerCaller ==
  \A i \in CallIds :
    /\ (calls[i].status = "resolved" /\ calls[i].opts.onLoad) => Invocations(i, "onLoad") = 1
    /\ (calls[i].status = "rejected" /\ calls[i].opts.onError) => Invocations(i, "onError") = 1

\* The load with the options of call id settles in this step.
Settles(id) == ~Settled(id) /\ loads'[id].pc \in {"resolved", "rejected"}

\* C37: when a load started with showLoading = true settles, its mount point
\* does not hold the loading placeholder: it holds the markup of the load
\* after success and the error state after failure, whatever the failure
\* and with or without an onError callback.
C37_PlaceholderGoneWhenSettled ==
  [][\A id \in CallIds :
       (Settles(id) /\ calls'[id].opts.showLoading)
       => LET shown == dom'[loads'[id].target]
          IN /\ shown.kind # "loading"
             /\ loads'[id].pc = "resolved" => shown.kind = "markup" /\ shown.html = loads'[id].html
             /\ loads'[id].pc = "rejected" => shown = ErrorState(calls'[id].name)]_vars

----------------------------------------------------------------------------
(* Further properties of the blog manager *)

\* C38: after every render the pagination strip is in the page exactly when
\* the filtered list has more than one page, and every button of the strip
\* leads to a page within 1..totalPages of the filtered list; no button of
\* an earlier render is left when a filter matches nothing.
C38_StripFollowsFilteredList ==
  Rendered =>
    LET totalPages == totalPagesOf(filteredPosts)
    IN /\ pagination # NoPagination <=> totalPages > 1
       /\ \A k \in DOMAIN pagination :
            pagination[k].kind # "ellipsis" => pagination[k].page \in 1..totalPages

\* The comparison of handleScroll at the current offset.
AboveThreshold == scrollTop > 50

\* C31: once the scroll events have stopped, the debounced handler runs and
\* leaves the scrolled flag equal to (offset > 50); the flag changes only to
\* the value of that comparison and the header's 'scrolled' class only
\* together with the flag; at most one run of the handler is pending,
\* however many scroll events arrive before it.
C31_ScrolledFlagFollowsOffset ==
  /\ [](NavListens => /\ scrollTimer <= 1
                      /\ scrollTimer = 0 => isScrolled = AboveThreshold)
  /\ [][/\ isScrolled' # isScrolled => isScrolled' = AboveThreshold'
        /\ scrolledClass' # scrolledClass => isScrolled' # isScrolled /\ scrolledClass' = isScrolled'
        /\ (navEvent'.type = "scroll" /\ scrollTimer > 0) => scrollTimer' = scrollTimer]_vars
  /\ (scrollTimer > 0) ~> (scrollTimer = 0 /\ isScrolled = AboveThreshold)

\* The handler has run after scroll events that took the page from the top
\* to 51px, and has set the flag and the class.
C31_Witness ==
  /\ navEvent = [type |-> "timer", detail |-> "scroll"]
  /\ dispatched = <<"navigation:scroll-change">>
  /\ scrollTop = 51
  /\ isScrolled
  /\ scrolledClass
  /\ scrollTimer = 0

\* The aria-expanded attribute (and with it the 'active' class) of the
\* toggle control the page shows: the element the controller cached, or
\* the copy that destroy put in its place.
ShownToggle == IF toggleClone = "none" THEN ariaExpanded ELSE toggleClone

\* C32: in every state the controller's operations reach, the body's
\* overflow is hidden iff the menu is open, and the toggle control shown in
\* the page is marked expanded iff the menu is open.
C32_MenuStateShownInPage ==
  NavListens =>
    /\ bodyOverflow = "hidden" <=> isMenuOpen
    /\ navbarToggle => (ShownToggle = "true" <=> isMenuOpen)

\* The address a link leads to from the page at path: a rooted href as it
\* is, any other one in the directory of the page.
RECURSIVE directory(_)
directory(path) ==
  IF path = <<>> \/ path[Len(path)] = "/" THEN path
  ELSE directory(SubSeq(path, 1, Len(path) - 1))

resolve(href, path) == IF href[1] = "/" THEN href ELSE directory(path) \o href

\* The address of a directory serves its index.html.
served(path) == IF path[Len(path)] = "/" THEN path \o <<"index.html">> ELSE path

\* The links whose target is the current page.
LinksToCurrentPage ==
  {k \in DOMAIN linkHrefs : served(resolve(linkHrefs[k], pathname)) = served(pathname)}

\* C33: after initialisation at most one link is marked current: exactly
\* one when the path matches a link's target, none when it matches none.
C33_OneLinkMarkedCurrent ==
  navPc = "ready" =>
    /\ Cardinality(activeLinks) <= 1
    /\ LinksToCurrentPage # {} => Cardinality(activeLinks) = 1
    /\ LinksToCurrentPage = {} => activeLinks = {}

----------------------------------------------------------------------------
(***************************************************************************)
(* Claims about the running application.                                   *)
(***************************************************************************)

\* C35: the documented keyboard shortcuts take effect: a key press of
\* Alt+T toggles the theme between light and dark, one of Alt+M toggles
\* the mobile menu, one of Escape closes an open menu.
C35_KeyboardShortcuts ==
  [][(NavListens /\ themePc[ThisPage] = "ready") =>
       /\ keydown("Alt+T") =>
            /\ currentTheme[ThisPage] = "light" => currentTheme'[ThisPage] = "dark"
            /\ currentTheme[ThisPage] = "dark" => currentTheme'[ThisPage] = "light"
       /\ keydown("Alt+M") => isMenuOpen' = ~isMenuOpen
       /\ keydown("Escape") /\ isMenuOpen => ~isMenuOpen']_vars

\* C39: once the handlers of both scroll listeners have run for the
\* current offset, the header carries the 'scrolled' class iff the scrolled
\* flag of the Navigation is true, which it is iff the offset is above 50.
C39_ScrolledClassFollowsFlag ==
  (NavListens /\ scrollTimer = 0 /\ loaderScrollTimer = 0) =>
    /\ isScrolled = AboveThreshold
    /\ scrolledClass = isScrolled

\* How many times a handler dispatched the event.
Dispatches(event) == Cardinality({i \in DOMAIN dispatched' : dispatched'[i] = event})

\* C40: navigation:menu-closed is dispatched once by a step that takes the
\* menu from open to closed and by no other step, navigation:menu-opened
\* once by a step that opens the menu and by no other step, so that the
\* two events alternate, menu-opened first.  (Every step of the theme
\* controller changes one of its variables, and no other step does.)
C40_MenuEventsAlternate ==
  [][UNCHANGED themeVars =>
       /\ Dispatches("navigation:menu-closed") = (IF isMenuOpen /\ ~isMenuOpen' THEN 1 ELSE 0)
       /\ Dispatches("navigation:menu-opened") = (IF ~isMenuOpen /\ isMenuOpen' THEN 1 ELSE 0)]_vars

====
